---- MODULE Spec2Model ----
(***************************************************************************)
(* A model of the storage and concurrency core of the BusTub coursework    *)
(* repository: the two-phase lock manager with its waits-for deadlock      *)
(* detector, the B+tree index, and the buffer pool with its LRU replacer.  *)
(*                                                                         *)
(* Every subsystem has its own next-state relation and specification; the  *)
(* variables of the other subsystems stay at their initial values.         *)
(***************************************************************************)
EXTENDS Integers, Sequences, FiniteSets, TLC

(***************************************************************************)
(* Bounds of the model.                                                    *)
(***************************************************************************)
MaxTxn == 2       \* transactions 1..MaxTxn use the lock manager
MaxRid == 2       \* record ids 1..MaxRid
MaxRequests == 4  \* lock requests ever appended to the queues, over all RIDs
MaxVertex == 3    \* vertices of the waits-for graphs given to HasCycle
MaxEdges == 4     \* AddEdge calls made on one waits-for graph
MaxKey == 5       \* keys 1..MaxKey are inserted into and removed from the tree
MaxPages == 8     \* page ids the tree may have allocated
MaxLoadKey == 8   \* keys of the tree that is loaded in descending order
MaxLoadPages == 12  \* page ids that tree may have allocated
MaxScan == 12     \* steps after which an iteration is cut off
MaxCascadeKey == 10    \* keys of the tree that is loaded in ascending order
MaxCascadePages == 20  \* page ids that tree may have allocated
MaxThread == 2    \* threads 1..MaxThread call the tree concurrently
MaxCrabKey == 7   \* keys of the tree those threads work on
MaxCrabPages == 12  \* page ids that tree may have allocated
MaxCrabCalls == 4   \* calls those threads make in all
PoolSize == 3     \* frames of the buffer pool
MaxPoolPages == 4 \* page ids the pool's disk manager may have allocated
MaxPin == 2       \* pins one page may hold at a time

Txns == 1..MaxTxn
Threads == 1..MaxThread
CrabPages == 1..MaxCrabPages
RIDs == 1..MaxRid
Vertices == 1..MaxVertex
AllTxns == 1..(IF MaxTxn > MaxVertex THEN MaxTxn ELSE MaxVertex)

NoTxn == 0 - 1    \* stands for "no transaction id" (INVALID_TXN_ID)

VARIABLES
  \* ---- lock manager ----
  lock_table,          \* rid -> [request_queue, reading_count, is_writting]
  txn_state,           \* txn -> GROWING | SHRINKING | COMMITTED | ABORTED
  iso,                 \* txn -> isolation level
  shared_lock_set,     \* txn -> set of rids
  exclusive_lock_set,  \* txn -> set of rids
  txn_wait,            \* txn -> [op, rid]: the call the thread is blocked in
  notified,            \* txn -> the blocked thread has been woken and not yet run
  thrown,              \* txn -> abort reason raised by its last call, or "none"
  waits_for,           \* txn -> sequence of txns it waits for
  hc,                  \* outcome of the last HasCycle call on waits_for
  detect_round,        \* parity of the number of detection rounds run so far
  \* ---- B+tree ----
  pages,               \* page id -> the B+tree page with that id
  root_page_id_,       \* BPlusTree::root_page_id_
  next_page_id,        \* the page id the tree's next NewPage gets
  header_record,       \* the root id the header page records for the index
  leaf_max_size_,      \* BPlusTree::leaf_max_size_ (0: not constructed yet)
  internal_max_size_,  \* BPlusTree::internal_max_size_
  live,                \* key -> value: the pairs inserted and not removed since
  result,              \* what the last call on the tree returned
  \* ---- threads that call the tree with a transaction record ----
  threads,             \* thread -> [pc, op, key, page, page_set, ret]
  latches,             \* page id -> [writer, readers]: the page's latch
  pins,                \* page id -> the pins the threads' descents hold on it
  crab,                \* [misuse, sideways, calls, latch_, first, wild]: what the
                       \* threads did to latches, and who holds the tree's mutex
  \* ---- buffer pool ----
  pages_,              \* frame -> [page_id_, pin_count_, is_dirty_]
  page_table_,         \* page id -> frame
  free_list_,          \* frames, front first
  lruList,             \* LRUReplacer::lruList, front first
  disk_next_page_id,   \* the page id DiskManager::AllocatePage returns next
  pool_ret,            \* the last call on the pool: its arguments, what it
                       \* returned and the disk calls it made
  handles,             \* successful FetchPage/NewPage calls minus the
                       \* UnpinPage calls that returned true
  scenario,            \* how many calls of EvictionScenario the calls made so
                       \* far are, or Off
  \* ---- the replacer called by a client of its own ----
  replacer_ret,        \* the last call on the replacer and what it returned
  lru_ref,             \* the queue a reference LRU replacer holds, front first
  unpin_order          \* the frames in the order of their last Unpin that
                       \* entered them, oldest first

lockVars == <<lock_table, txn_state, iso, shared_lock_set, exclusive_lock_set,
              txn_wait, notified, thrown>>
graphVars == <<waits_for, hc>>
crabVars == <<threads, latches, pins, crab>>
treeVars == <<pages, root_page_id_, next_page_id, header_record, leaf_max_size_,
              internal_max_size_, live, result, crabVars>>
replacerVars == <<replacer_ret, lru_ref, unpin_order>>
poolVars == <<pages_, page_table_, free_list_, lruList, disk_next_page_id, pool_ret,
              handles, scenario, replacerVars>>
vars == <<lockVars, graphVars, detect_round, treeVars, poolVars>>

\* What an action of one subsystem leaves alone.
notTree == <<lockVars, graphVars, detect_round, poolVars, crabVars>>
notPool == <<lockVars, graphVars, detect_round, treeVars>>

(***************************************************************************)
(* Helpers on sequences.                                                   *)
(***************************************************************************)
Range(s) == {s[i] : i \in 1..Len(s)}

Max(S) == CHOOSE x \in S : \A y \in S : y <= x

Perms(S) ==
  {s \in [1..Cardinality(S) -> S] : \A i, j \in 1..Cardinality(S) : i # j => s[i] # s[j]}

IndexOf(s, x) == CHOOSE i \in 1..Len(s) : s[i] = x /\ \A j \in 1..(i - 1) : s[j] # x

(***************************************************************************)
(* Waits-for graph.  waits_for_ is an unordered_map from a transaction to  *)
(* the vector of transactions it waits for: keys is the set of keys the    *)
(* map holds, adj the vectors (empty for a transaction that is no key).    *)
(* operator[] inserts the key it is asked for when the map lacks it.       *)
(***************************************************************************)
EmptyGraph == [keys |-> {}, adj |-> [t \in AllTxns |-> <<>>]]

\* waits_for_[t]
Touch(wf, t) == [wf EXCEPT !.keys = @ \cup {t}]

AddEdge(wf, t1, t2) ==
  IF t1 \notin wf.keys
  THEN [keys |-> wf.keys \cup {t1}, adj |-> [wf.adj EXCEPT ![t1] = <<t2>>]]
  ELSE IF t2 \in Range(wf.adj[t1]) THEN wf
       ELSE [wf EXCEPT !.adj[t1] = Append(@, t2)]

RemoveEdge(wf, t1, t2) ==
  IF t2 \notin Range(wf.adj[t1]) THEN Touch(wf, t1)
  ELSE LET i == IndexOf(wf.adj[t1], t2)
       IN [Touch(wf, t1) EXCEPT
             !.adj[t1] = SubSeq(@, 1, i - 1) \o SubSeq(@, i + 1, Len(@))]

GetEdgeList(wf) == {<<a, b>> \in AllTxns \X AllTxns : b \in Range(wf.adj[a])}

\* The victim dfs reports once child is found on the trail: the largest id
\* among the trail entries from child's position to the end of the trail.
CycleVictim(trial, child) ==
  Max({trial[i] : i \in IndexOf(trial, child)..Len(trial)})

RECURSIVE dfs(_, _, _, _, _)
RECURSIVE dfsChildren(_, _, _, _, _, _)

\* dfs(current, trial, visited, txn_id): current is pushed on the trail and
\* marked visited, then its children are tried in vector order.  full says
\* that the map is at its load threshold, so that the insertion of a key by
\* waits_for_[current] rehashes it; the result tells whether it still is.
dfs(wf, current, trial, visited, full) ==
  dfsChildren(Touch(wf, current), current, 1, Append(trial, current),
              visited \cup {current}, full /\ current \in wf.keys)

dfsChildren(wf, current, k, trial, visited, full) ==
  IF k > Len(wf.adj[current])
  THEN [found |-> FALSE, txn_id |-> NoTxn, visited |-> visited, wf |-> wf,
        full |-> full]
  ELSE LET child == wf.adj[current][k]
       IN IF child \in Range(trial)
          THEN [found |-> TRUE, txn_id |-> CycleVictim(trial, child),
                visited |-> visited, wf |-> wf, full |-> full]
          ELSE IF child \notin visited
               THEN LET r == dfs(wf, child, trial, visited, full)
                    IN IF r.found THEN r
                       ELSE dfsChildren(r.wf, current, k + 1, trial, r.visited,
                                        r.full)
               ELSE dfsChildren(wf, current, k + 1, trial, visited, full)

\* The state of the hash table that matters to a traversal: full as above,
\* and rest, the keys that follow the current one in the chain once the
\* table has been rehashed.
NoRehash == [full |-> FALSE, rest |-> <<>>]

DistinctSeqs(S) ==
  UNION {{s \in [1..n -> S] : \A i, j \in 1..n : i # j => s[i] # s[j]}
         : n \in 0..Cardinality(S)}

Rehashes(S) == {NoRehash} \cup {[full |-> TRUE, rest |-> s] : s \in DistinctSeqs(S)}

\* The range-for of HasCycle over waits_for_.  todo is what is left of the
\* chain of keys.  A key inserted by dfs goes in front of the chain; when
\* the insertion rehashes the table, the iterator of the range-for is
\* invalidated and the loop goes on along the new chain.
RECURSIVE HasCycleFrom(_, _, _, _)
HasCycleFrom(wf, todo, visited, re) ==
  IF todo = <<>>
  THEN [found |-> FALSE, txn_id |-> NoTxn, wf |-> wf, re |-> re]
  ELSE LET cur == Head(todo)
           r == dfs(wf, cur, <<>>, visited, re.full)
       IN IF r.found
          THEN [found |-> TRUE, txn_id |-> r.txn_id, wf |-> r.wf,
                re |-> IF r.full THEN re ELSE NoRehash]
          ELSE IF re.full /\ ~r.full
               THEN HasCycleFrom(r.wf,
                                 SelectSeq(re.rest,
                                           LAMBDA x : x \in r.wf.keys /\ x # cur),
                                 r.visited, NoRehash)
               ELSE HasCycleFrom(r.wf, Tail(todo), r.visited, re)

\* order ranks the transactions as the chain of the hash table holds them.
HasCycle(wf, order, re) ==
  HasCycleFrom(wf, SelectSeq(order, LAMBDA x : x \in wf.keys), {}, re)

(***************************************************************************)
(* Lock manager.                                                           *)
(***************************************************************************)
NoWait == [op |-> "none", rid |-> 0]

RECURSIVE SumQueues(_)
SumQueues(rs) ==
  IF rs = {} THEN 0
  ELSE LET r == CHOOSE x \in rs : TRUE
       IN Len(lock_table[r].request_queue) + SumQueues(rs \ {r})

\* No request is ever erased from a queue, so this counts the lock calls
\* that got as far as appending their request.
RequestsMade == SumQueues(RIDs)

LockRequest(t, m) == [txn_id |-> t, lock_mode |-> m, granted |-> FALSE]

\* The loop that marks the first request of txn t in mode m as granted.
GrantFirst(q, t, m) ==
  LET idx == {i \in 1..Len(q) : q[i].txn_id = t /\ q[i].lock_mode = m}
  IN IF idx = {} THEN q
     ELSE LET i == CHOOSE i \in idx : \A j \in idx : i <= j
          IN [q EXCEPT ![i].granted = TRUE]

\* LockPrepare rejects a request made in the shrinking phase.
LockPrepare(t) ==
  ~(iso[t] # "READ_UNCOMMITTED" /\ txn_state[t] = "SHRINKING")

\* The unlocking path of a call that throws: the transaction is aborted,
\* nothing else changes.
Throw(t, reason) ==
  /\ txn_state' = [txn_state EXCEPT ![t] = "ABORTED"]
  /\ thrown' = [thrown EXCEPT ![t] = reason]
  /\ UNCHANGED <<lock_table, iso, shared_lock_set, exclusive_lock_set, txn_wait,
                 notified, waits_for, hc, detect_round, treeVars, poolVars>>

\* The thread blocks in cv_.wait on the rid's condition variable.
Block(t, r, op, lt) ==
  /\ lock_table' = lt
  /\ txn_wait' = [txn_wait EXCEPT ![t] = [op |-> op, rid |-> r]]
  /\ notified' = [notified EXCEPT ![t] = FALSE]
  /\ UNCHANGED <<txn_state, iso, shared_lock_set, exclusive_lock_set, thrown,
                 waits_for, hc, detect_round, treeVars, poolVars>>

\* The part of each lock call that runs once its wait is over.
DeadlockExit(t, lt) ==
  /\ lock_table' = lt
  /\ thrown' = [thrown EXCEPT ![t] = "DEADLOCK"]
  /\ txn_wait' = [txn_wait EXCEPT ![t] = NoWait]
  /\ notified' = [notified EXCEPT ![t] = FALSE]
  /\ UNCHANGED <<txn_state, iso, shared_lock_set, exclusive_lock_set, waits_for, hc, detect_round, treeVars, poolVars>>

SharedFinish(t, r, lt) ==
  IF txn_state[t] = "ABORTED" THEN DeadlockExit(t, lt)
  ELSE /\ lock_table' = [lt EXCEPT ![r].reading_count = @ + 1,
                                   ![r].request_queue = GrantFirst(@, t, "S")]
       /\ shared_lock_set' = [shared_lock_set EXCEPT ![t] = @ \cup {r}]
       /\ thrown' = [thrown EXCEPT ![t] = "none"]
       /\ txn_wait' = [txn_wait EXCEPT ![t] = NoWait]
       /\ notified' = [notified EXCEPT ![t] = FALSE]
       /\ UNCHANGED <<txn_state, iso, exclusive_lock_set, waits_for, hc, detect_round, treeVars, poolVars>>

ExclusiveFinish(t, r, lt) ==
  IF txn_state[t] = "ABORTED" THEN DeadlockExit(t, lt)
  ELSE /\ lock_table' = [lt EXCEPT ![r].is_writting = TRUE,
                                   ![r].request_queue = GrantFirst(@, t, "X")]
       /\ exclusive_lock_set' = [exclusive_lock_set EXCEPT ![t] = @ \cup {r}]
       /\ thrown' = [thrown EXCEPT ![t] = "none"]
       /\ txn_wait' = [txn_wait EXCEPT ![t] = NoWait]
       /\ notified' = [notified EXCEPT ![t] = FALSE]
       /\ UNCHANGED <<txn_state, iso, shared_lock_set, waits_for, hc, detect_round, treeVars, poolVars>>

\* The predicates the three calls wait on.
SharedMayProceed(t, q) == txn_state[t] = "ABORTED" \/ ~q.is_writting

ExclusiveMayProceed(t, q) ==
  txn_state[t] = "ABORTED" \/ (~q.is_writting /\ q.reading_count = 0)

UpgradeMayProceed(t, q) == txn_state[t] = "ABORTED" \/ q.reading_count = 0

Enqueue(lt, r, t, m) ==
  [lt EXCEPT ![r].request_queue = Append(@, LockRequest(t, m))]

LockShared(t, r) ==
  /\ txn_wait[t].op = "none"
  /\ RequestsMade < MaxRequests
  /\ IF iso[t] = "READ_UNCOMMITTED" THEN Throw(t, "LOCKSHARED_ON_READ_UNCOMMITTED")
     ELSE IF ~LockPrepare(t) THEN Throw(t, "LOCK_ON_SHRINKING")
     ELSE LET lt == Enqueue(lock_table, r, t, "S")
          IN IF lt[r].is_writting /\ ~SharedMayProceed(t, lt[r])
             THEN Block(t, r, "S", lt)
             ELSE SharedFinish(t, r, lt)

LockExclusive(t, r) ==
  /\ txn_wait[t].op = "none"
  /\ RequestsMade < MaxRequests
  /\ IF ~LockPrepare(t) THEN Throw(t, "LOCK_ON_SHRINKING")
     ELSE LET lt == Enqueue(lock_table, r, t, "X")
          IN IF (lt[r].is_writting \/ lt[r].reading_count > 0)
                /\ ~ExclusiveMayProceed(t, lt[r])
             THEN Block(t, r, "X", lt)
             ELSE ExclusiveFinish(t, r, lt)

\* LockUpgrade is called by a transaction that holds the shared lock.  The
\* loop that erases the caller's requests runs on a copy of the queue
\* (auto lock_request_list = ...request_queue_), so the queue keeps them.
LockUpgrade(t, r) ==
  /\ txn_wait[t].op = "none"
  /\ r \in shared_lock_set[t]
  /\ RequestsMade < MaxRequests
  /\ IF lock_table[r].is_writting THEN Throw(t, "UPGRADE_CONFLICT")
     ELSE IF ~LockPrepare(t) THEN Throw(t, "LOCK_ON_SHRINKING")
     ELSE LET lt == Enqueue([lock_table EXCEPT ![r].reading_count = @ - 1], r, t, "X")
          IN /\ shared_lock_set' = [shared_lock_set EXCEPT ![t] = @ \ {r}]
             /\ IF lt[r].reading_count > 0 /\ ~UpgradeMayProceed(t, lt[r])
                THEN /\ lock_table' = lt
                     /\ txn_wait' = [txn_wait EXCEPT ![t] = [op |-> "U", rid |-> r]]
                     /\ notified' = [notified EXCEPT ![t] = FALSE]
                     /\ UNCHANGED <<txn_state, iso, exclusive_lock_set, thrown,
                                    waits_for, hc, detect_round, treeVars, poolVars>>
                ELSE IF txn_state[t] = "ABORTED"
                     THEN /\ lock_table' = lt
                          /\ thrown' = [thrown EXCEPT ![t] = "DEADLOCK"]
                          /\ UNCHANGED <<txn_state, iso, exclusive_lock_set, txn_wait,
                                         notified, waits_for, hc, detect_round, treeVars, poolVars>>
                     ELSE /\ lock_table' = [lt EXCEPT ![r].is_writting = TRUE,
                                              ![r].request_queue = GrantFirst(@, t, "X")]
                          /\ exclusive_lock_set' = [exclusive_lock_set EXCEPT ![t] = @ \cup {r}]
                          /\ thrown' = [thrown EXCEPT ![t] = "none"]
                          /\ UNCHANGED <<txn_state, iso, txn_wait, notified, waits_for, hc, detect_round, treeVars, poolVars>>

\* A woken thread re-acquires latch_ and evaluates its wait predicate again.
WakeUp(t) ==
  /\ txn_wait[t].op # "none"
  /\ notified[t]
  /\ LET r == txn_wait[t].rid
         op == txn_wait[t].op
         go == IF op = "S" THEN SharedMayProceed(t, lock_table[r])
               ELSE IF op = "X" THEN ExclusiveMayProceed(t, lock_table[r])
               ELSE UpgradeMayProceed(t, lock_table[r])
     IN IF ~go
        THEN /\ notified' = [notified EXCEPT ![t] = FALSE]
             /\ UNCHANGED <<lock_table, txn_state, iso, shared_lock_set,
                            exclusive_lock_set, txn_wait, thrown, waits_for, hc, detect_round, treeVars, poolVars>>
        ELSE IF op = "S" THEN SharedFinish(t, r, lock_table)
             ELSE ExclusiveFinish(t, r, lock_table)

\* condition_variable::wait may return without a notification; the thread
\* then evaluates its predicate like a notified one.  A spurious wake-up
\* that finds the predicate false changes nothing.
SpuriousWakeUp(t) ==
  /\ txn_wait[t].op # "none"
  /\ ~notified[t]
  /\ LET r == txn_wait[t].rid
         op == txn_wait[t].op
     IN /\ IF op = "S" THEN SharedMayProceed(t, lock_table[r])
           ELSE IF op = "X" THEN ExclusiveMayProceed(t, lock_table[r])
           ELSE UpgradeMayProceed(t, lock_table[r])
        /\ IF op = "S" THEN SharedFinish(t, r, lock_table)
           ELSE ExclusiveFinish(t, r, lock_table)

NotifyAll(r) ==
  [t \in Txns |-> IF txn_wait[t].op # "none" /\ txn_wait[t].rid = r THEN TRUE
                  ELSE notified[t]]

\* Unlock, called for a rid the transaction holds.  The erase loop runs on
\* a copy of the request queue, so the queue itself keeps every request.
UnlockNextState(s) == IF s = "GROWING" THEN "SHRINKING" ELSE s

Unlock(t, r) ==
  /\ txn_wait[t].op = "none"
  /\ r \in shared_lock_set[t] \cup exclusive_lock_set[t]
  /\ lock_table' =
       [lock_table EXCEPT
          ![r].reading_count = IF r \in shared_lock_set[t] THEN @ - 1 ELSE @,
          ![r].is_writting = IF r \in exclusive_lock_set[t] THEN FALSE ELSE @]
  /\ shared_lock_set' = [shared_lock_set EXCEPT ![t] = @ \ {r}]
  /\ exclusive_lock_set' = [exclusive_lock_set EXCEPT ![t] = @ \ {r}]
  /\ notified' = NotifyAll(r)
  /\ txn_state' = [txn_state EXCEPT ![t] = UnlockNextState(@)]
  /\ thrown' = [thrown EXCEPT ![t] = "none"]
  /\ UNCHANGED <<iso, txn_wait, waits_for, hc, detect_round, treeVars, poolVars>>

(***************************************************************************)
(* Deadlock detection.                                                     *)
(***************************************************************************)
\* The txn ids of the requests of queue q with the given mode and granted
\* flag, in queue order.
RequestsOf(q, m, g) ==
  LET sel == SelectSeq(q, LAMBDA x : x.lock_mode = m /\ x.granted = g)
  IN [i \in 1..Len(sel) |-> sel[i].txn_id]

\* for a in as: for b in bs: <<a, b>>
Cross(as, bs) ==
  [k \in 1..(Len(as) * Len(bs)) |->
     <<as[((k - 1) \div Len(bs)) + 1], bs[((k - 1) % Len(bs)) + 1]>>]

RECURSIVE AddEdges(_, _, _)
AddEdges(wf, pairs, k) ==
  IF k > Len(pairs) THEN wf
  ELSE AddEdges(AddEdge(wf, pairs[k][1], pairs[k][2]), pairs, k + 1)

\* The edges one request queue contributes: ungranted S -> granted X,
\* ungranted X -> granted S and granted X.
QueueEdges(q) ==
  Cross(RequestsOf(q, "S", FALSE), RequestsOf(q, "X", TRUE))
    \o Cross(RequestsOf(q, "X", FALSE),
             RequestsOf(q, "S", TRUE) \o RequestsOf(q, "X", TRUE))

\* The victim's key is erased and the victim is removed from the vector of
\* every other key.
RECURSIVE PurgeFrom(_, _, _)
PurgeFrom(wf, ks, v) ==
  IF ks = {} THEN wf
  ELSE LET t == CHOOSE x \in ks : TRUE
       IN PurgeFrom(RemoveEdge(wf, t, v), ks \ {t}, v)

PurgeVictim(wf, v) ==
  PurgeFrom([keys |-> wf.keys \ {v}, adj |-> [wf.adj EXCEPT ![v] = <<>>]],
            wf.keys \ {v}, v)

\* while (HasCycle(&txn_id)) { abort txn_id; notify; purge }
RECURSIVE BreakCycles(_, _, _, _, _)
BreakCycles(wf, st, order, hit, re) ==
  LET h == HasCycle(wf, order, re)
  IN IF ~h.found THEN [wf |-> h.wf, st |-> st, hit |-> hit, re |-> h.re]
     ELSE BreakCycles(PurgeVictim(h.wf, h.txn_id),
                      [st EXCEPT ![h.txn_id] = "ABORTED"], order, TRUE, h.re)

\* The loop over lock_table_: ridOrder is the iteration order of the
\* unordered_map.  note collects the rids whose condition variable got a
\* notify_all: the rid being visited when a cycle is found.
RECURSIVE DetectRids(_, _, _, _, _, _, _)
DetectRids(ridOrder, i, wf, st, order, note, re) ==
  IF i > Len(ridOrder) THEN [wf |-> wf, st |-> st, note |-> note]
  ELSE LET r == ridOrder[i]
           q == lock_table[r]
       IN IF ~q.is_writting /\ q.reading_count = 0
          THEN DetectRids(ridOrder, i + 1, wf, st, order, note, re)
          ELSE LET b == BreakCycles(AddEdges(wf, QueueEdges(q.request_queue), 1),
                                    st, order, FALSE, re)
               IN DetectRids(ridOrder, i + 1, b.wf, b.st, order,
                             IF b.hit THEN note \cup {r} ELSE note, b.re)

\* One round of the detection thread, run under latch_.
RunCycleDetection(ridOrder, order, re) ==
  \E d \in {DetectRids(ridOrder, 1, EmptyGraph, txn_state, order, {}, re)} :
     /\ waits_for' = d.wf
     /\ txn_state' = d.st
     /\ notified' = [t \in Txns |->
                       IF txn_wait[t].op # "none" /\ txn_wait[t].rid \in d.note
                       THEN TRUE ELSE notified[t]]
     /\ hc' = hc
     /\ detect_round' = 1 - detect_round
     /\ UNCHANGED <<lock_table, iso, shared_lock_set, exclusive_lock_set, txn_wait,
                    thrown, treeVars, poolVars>>

DetectionTick ==
  \E ridOrder \in Perms(RIDs), order \in Perms(Txns), re \in Rehashes(Txns) :
     RunCycleDetection(ridOrder, order, re)

(***************************************************************************)
(* B+tree index.  A page is a record: type, parent (parent_page_id),      *)
(* next (next_page_id of a leaf), and the array as two sequences of equal  *)
(* length, keys and vals; array[i] of the code is <<keys[i+1], vals[i+1]>>.*)
(* The page id of a page is its index in pages.  The tree runs on a buffer *)
(* pool large enough never to evict: every page the tree allocated is in   *)
(* the pool, and a frame handed out is one that was never used (zeroed).   *)
(* The calls are made without a transaction record (transaction ==         *)
(* nullptr), so no latch is taken.                                         *)
(***************************************************************************)
INVALID_PAGE_ID == 0 - 1

ZeroKey == 0     \* the key read from zeroed page memory

NoVal == 0       \* a default-constructed RID

Keys == 1..MaxKey
Values == 1..(MaxKey + 1)

Size(p) == Len(p.vals)

IsLeafPage(p) == p.type = "LEAF"

GetMaxSize(p) == IF IsLeafPage(p) THEN leaf_max_size_ ELSE internal_max_size_

GetMinSize(p) == GetMaxSize(p) \div 2

IsRootPage(p) == p.parent = INVALID_PAGE_ID

InsertAt(s, i, x) == SubSeq(s, 1, i - 1) \o <<x>> \o SubSeq(s, i, Len(s))

RemoveAt(s, i) == SubSeq(s, 1, i - 1) \o SubSeq(s, i + 1, Len(s))

\* ---- leaf page ----
LeafInit(parent_id) ==
  [type |-> "LEAF", parent |-> parent_id, next |-> INVALID_PAGE_ID,
   keys |-> <<>>, vals |-> <<>>]

\* The index of the first key >= key (the size when there is none).
LeafKeyIndex(p, key) == Cardinality({i \in 1..Size(p) : p.keys[i] < key})

LeafHas(p, key) == \E i \in 1..Size(p) : p.keys[i] = key

LeafLookup(p, key) ==
  IF LeafHas(p, key)
  THEN [found |-> TRUE, value |-> p.vals[LeafKeyIndex(p, key) + 1]]
  ELSE [found |-> FALSE, value |-> NoVal]

LeafInsert(p, key, value) ==
  [p EXCEPT !.keys = InsertAt(@, LeafKeyIndex(p, key) + 1, key),
            !.vals = InsertAt(@, LeafKeyIndex(p, key) + 1, value)]

RemoveAndDeleteRecord(p, key) ==
  IF LeafHas(p, key)
  THEN [p EXCEPT !.keys = RemoveAt(@, LeafKeyIndex(p, key) + 1),
                 !.vals = RemoveAt(@, LeafKeyIndex(p, key) + 1)]
  ELSE p

\* The sender keeps the first size - size/2 pairs.
LeafKeep(p) == Size(p) - (Size(p) \div 2)

\* ---- internal page ----
InternalInit(parent_id) ==
  [type |-> "INTERNAL", parent |-> parent_id, next |-> INVALID_PAGE_ID,
   keys |-> <<>>, vals |-> <<>>]

\* ValueIndex, as an index of the code (0-based); -1 when absent.
ValueIndex(p, value) ==
  LET idx == {i \in 1..Size(p) : p.vals[i] = value}
  IN IF idx = {} THEN 0 - 1 ELSE (CHOOSE i \in idx : \A j \in idx : i <= j) - 1

\* array[index], index 0-based
KeyAt(p, index) == p.keys[index + 1]

ValueAt(p, index) == p.vals[index + 1]

SetKeyAt(p, index, key) == [p EXCEPT !.keys[index + 1] = key]

\* Lookup with the comparison turned to <=: a key equal to a separator is
\* sent to the child on the separator's left.
InternalLookup_LeftOfEqual(p, key) ==
  LET idx == {i \in 1..(Size(p) - 1) : key <= KeyAt(p, i)}
  IN IF idx = {} THEN ValueAt(p, Size(p) - 1)
     ELSE ValueAt(p, (CHOOSE i \in idx : \A j \in idx : i <= j) - 1)

InternalLookup(p, key) ==
  LET idx == {i \in 1..(Size(p) - 1) : key < KeyAt(p, i)}
  IN IF idx = {} THEN ValueAt(p, Size(p) - 1)
     ELSE ValueAt(p, (CHOOSE i \in idx : \A j \in idx : i <= j) - 1)

InternalKeyIndex(p, key) ==
  LET idx == {i \in 1..(Size(p) - 1) : key = KeyAt(p, i)}
  IN IF idx = {} THEN 0 - 1 ELSE CHOOSE i \in idx : \A j \in idx : i <= j

\* array[0].first is not written: it keeps what the zeroed frame held.
PopulateNewRoot(p, old_value, new_key, new_value) ==
  [p EXCEPT !.keys = <<ZeroKey, new_key>>, !.vals = <<old_value, new_value>>]

InsertNodeAfter(p, old_value, new_key, new_value) ==
  [p EXCEPT !.keys = InsertAt(@, ValueIndex(p, old_value) + 2, new_key),
            !.vals = InsertAt(@, ValueIndex(p, old_value) + 2, new_value)]

InternalInsert(p, index, key, value) ==
  [p EXCEPT !.keys = InsertAt(@, index + 1, key),
            !.vals = InsertAt(@, index + 1, value)]

InternalRemove(p, index) ==
  [p EXCEPT !.keys = RemoveAt(@, index + 1), !.vals = RemoveAt(@, index + 1)]

\* Moved children that keep the parent_page_id they had.
Adopt_None(pgs, vals, parent_id) == pgs

\* The children named by vals get parent_id as their parent.
Adopt(pgs, vals, parent_id) ==
  [q \in DOMAIN pgs |->
     IF q \in Range(vals) THEN [pgs[q] EXCEPT !.parent = parent_id] ELSE pgs[q]]

\* ---- the tree: t is [pages, root, next, hdr] ----
\* next is the page id the disk manager allocates next, hdr the root id the
\* header page records for the index (NoRecord before the first insert).
NoRecord == 0 - 2

\* HeaderPage::InsertRecord adds a record only for a name it does not hold.
InsertRecord(hdr, root_id) == IF hdr = NoRecord THEN root_id ELSE hdr

\* HeaderPage::UpdateRecord changes the record of a name it holds.
UpdateRecord(hdr, root_id) == IF hdr = NoRecord THEN hdr ELSE root_id

UpdateRootPageId(t, insert_record) ==
  IF insert_record # 0 THEN [t EXCEPT !.hdr = InsertRecord(@, t.root)]
  ELSE [t EXCEPT !.hdr = UpdateRecord(@, t.root)]

\* BufferPoolManager::NewPage as the tree sees it: the page id allocated.
NewPage(t, page) == [t EXCEPT !.pages = @ @@ (t.next :> page), !.next = @ + 1]

RECURSIVE FindLeafFrom(_, _, _, _)
FindLeafFrom(pgs, pid, key, leftMost) ==
  IF IsLeafPage(pgs[pid]) THEN pid
  ELSE FindLeafFrom(pgs,
                    IF leftMost THEN ValueAt(pgs[pid], 0)
                    ELSE InternalLookup(pgs[pid], key),
                    key, leftMost)

FindLeafPage(t, key, leftMost) == FindLeafFrom(t.pages, t.root, key, leftMost)

IsEmpty(t) == t.root = INVALID_PAGE_ID

GetValue(t, key) ==
  LET r == LeafLookup(t.pages[FindLeafPage(t, key, FALSE)], key)
  IN [ret |-> r.found, result |-> <<r.value>>]

\* Split that leaves the next_page_id of both leaves as Init and the old leaf
\* had them.
Split_Unlinked(t, n) ==
  LET node == t.pages[n]
      nw == t.next
  IN IF IsLeafPage(node)
     THEN LET k == LeafKeep(node)
              np == [LeafInit(node.parent) EXCEPT
                       !.keys = SubSeq(node.keys, k + 1, Size(node)),
                       !.vals = SubSeq(node.vals, k + 1, Size(node))]
              t1 == NewPage(t, np)
          IN [t |-> [t1 EXCEPT !.pages[n].keys = SubSeq(node.keys, 1, k),
                               !.pages[n].vals = SubSeq(node.vals, 1, k)],
              new |-> nw]
     ELSE LET k == Size(node) \div 2
              np == [InternalInit(node.parent) EXCEPT
                       !.keys = SubSeq(node.keys, k + 1, Size(node)),
                       !.vals = SubSeq(node.vals, k + 1, Size(node))]
              t1 == NewPage(t, np)
              t2 == [t1 EXCEPT !.pages = Adopt(@, np.vals, nw)]
          IN [t |-> [t2 EXCEPT !.pages[n].keys = SubSeq(node.keys, 1, k),
                               !.pages[n].vals = SubSeq(node.vals, 1, k)],
              new |-> nw]

\* Split: a new page takes the upper part of node n.  The result is the
\* tree and the id of the new page.
Split(t, n) ==
  LET node == t.pages[n]
      nw == t.next
  IN IF IsLeafPage(node)
     THEN LET k == LeafKeep(node)
              np == [LeafInit(node.parent) EXCEPT
                       !.keys = SubSeq(node.keys, k + 1, Size(node)),
                       !.vals = SubSeq(node.vals, k + 1, Size(node)),
                       !.next = node.next]
              t1 == NewPage(t, np)
          IN [t |-> [t1 EXCEPT !.pages[n].keys = SubSeq(node.keys, 1, k),
                               !.pages[n].vals = SubSeq(node.vals, 1, k),
                               !.pages[n].next = nw],
              new |-> nw]
     ELSE LET k == Size(node) \div 2
              np == [InternalInit(node.parent) EXCEPT
                       !.keys = SubSeq(node.keys, k + 1, Size(node)),
                       !.vals = SubSeq(node.vals, k + 1, Size(node))]
              t1 == NewPage(t, np)
              t2 == [t1 EXCEPT !.pages = Adopt(@, np.vals, nw)]
          IN [t |-> [t2 EXCEPT !.pages[n].keys = SubSeq(node.keys, 1, k),
                               !.pages[n].vals = SubSeq(node.vals, 1, k)],
              new |-> nw]

RECURSIVE InsertIntoParent(_, _, _, _)
InsertIntoParent(t, old_node, key, new_node) ==
  IF IsRootPage(t.pages[old_node])
  THEN LET new_root_id == t.next
           t1 == NewPage(t, PopulateNewRoot(InternalInit(INVALID_PAGE_ID),
                                            old_node, key, new_node))
           t2 == UpdateRootPageId([t1 EXCEPT !.root = new_root_id], 2)
       IN [t2 EXCEPT !.pages[old_node].parent = new_root_id,
                     !.pages[new_node].parent = new_root_id]
  ELSE LET parent == t.pages[old_node].parent
           t1 == [t EXCEPT !.pages[parent] =
                              InsertNodeAfter(@, old_node, key, new_node),
                           !.pages[new_node].parent = parent]
       IN IF Size(t1.pages[parent]) > GetMaxSize(t1.pages[parent])
          THEN LET s == Split(t1, parent)
               IN InsertIntoParent(s.t, parent, KeyAt(s.t.pages[s.new], 0), s.new)
          ELSE t1

StartNewTree(t, key, value) ==
  LET t1 == NewPage(t, LeafInsert(LeafInit(INVALID_PAGE_ID), key, value))
  IN UpdateRootPageId([t1 EXCEPT !.root = t.next], 1)

\* InsertIntoLeaf without the look-up for the key.
InsertIntoLeaf_NoLookup(t, key, value) ==
  IF IsEmpty(t) THEN [t |-> StartNewTree(t, key, value), ret |-> TRUE]
  ELSE LET leaf == FindLeafPage(t, key, FALSE)
           t1 == [t EXCEPT !.pages[leaf] = LeafInsert(@, key, value)]
       IN IF Size(t1.pages[leaf]) > GetMaxSize(t1.pages[leaf]) - 1
          THEN LET s == Split(t1, leaf)
               IN [t |-> InsertIntoParent(s.t, leaf,
                                          KeyAt(s.t.pages[s.new], 0), s.new),
                   ret |-> TRUE]
          ELSE [t |-> t1, ret |-> TRUE]

\* Insert(key, value) == InsertIntoLeaf(key, value): the tree after the call
\* and the value returned.
InsertIntoLeaf(t, key, value) ==
  IF IsEmpty(t) THEN [t |-> StartNewTree(t, key, value), ret |-> TRUE]
  ELSE LET leaf == FindLeafPage(t, key, FALSE)
       IN IF LeafLookup(t.pages[leaf], key).found
          THEN [t |-> t, ret |-> FALSE]
          ELSE LET t1 == [t EXCEPT !.pages[leaf] = LeafInsert(@, key, value)]
               IN IF Size(t1.pages[leaf]) > GetMaxSize(t1.pages[leaf]) - 1
                  THEN LET s == Split(t1, leaf)
                       IN [t |-> InsertIntoParent(s.t, leaf,
                                                  KeyAt(s.t.pages[s.new], 0), s.new),
                           ret |-> TRUE]
                  ELSE [t |-> t1, ret |-> TRUE]

\* The part of InsertIntoLeaf that follows FindLeafPageRW, on the leaf the
\* caller has reached.
InsertAtLeaf(t, leaf, key, value) ==
  IF LeafLookup(t.pages[leaf], key).found
  THEN [t |-> t, ret |-> FALSE]
  ELSE LET t1 == [t EXCEPT !.pages[leaf] = LeafInsert(@, key, value)]
       IN IF Size(t1.pages[leaf]) > GetMaxSize(t1.pages[leaf]) - 1
          THEN LET s == Split(t1, leaf)
               IN [t |-> InsertIntoParent(s.t, leaf,
                                          KeyAt(s.t.pages[s.new], 0), s.new),
                   ret |-> TRUE]
          ELSE [t |-> t1, ret |-> TRUE]

\* KeyAt(0) of a leaf; a leaf emptied by the removal of its only pair still
\* holds that pair's key in slot 0.
LeafKeyAt0(p, stale) == IF Size(p) > 0 THEN p.keys[1] ELSE stale

\* BufferPoolManager::DeletePage as the tree sees it: the tree gives the page
\* up.  No child pointer, next_page_id or root id names it any more, and its
\* content is no longer part of the index.
DeletePage(t, page_id) ==
  [t EXCEPT !.pages = [q \in (DOMAIN t.pages) \ {page_id} |-> t.pages[q]]]

\* AdjustRoot that never gives the root page up.
AdjustRoot_KeepRoot(t, old_root) == t

\* AdjustRoot that leaves the parent_page_id of the new root as it was.
AdjustRoot_NoReparent(t, old_root) ==
  LET node == t.pages[old_root]
  IN IF IsLeafPage(node) /\ Size(node) = 0
     THEN UpdateRootPageId([DeletePage(t, t.root) EXCEPT !.root = INVALID_PAGE_ID], 0)
     ELSE IF ~IsLeafPage(node) /\ Size(node) = 1
     THEN UpdateRootPageId([DeletePage(t, t.root) EXCEPT !.root = ValueAt(node, 0)], 0)
     ELSE t

AdjustRoot(t, old_root) ==
  LET node == t.pages[old_root]
  IN IF IsLeafPage(node) /\ Size(node) = 0
     THEN UpdateRootPageId([DeletePage(t, t.root) EXCEPT !.root = INVALID_PAGE_ID], 0)
     ELSE IF ~IsLeafPage(node) /\ Size(node) = 1
     THEN LET new_root_id == ValueAt(node, 0)
              t1 == UpdateRootPageId([DeletePage(t, t.root) EXCEPT !.root = new_root_id], 0)
          IN [t1 EXCEPT !.pages[new_root_id].parent = INVALID_PAGE_ID]
     ELSE t

\* Redistribute(neighbor_node, node, index): index = 0 moves the first pair
\* of the right sibling to the end of node, any other index the last pair of
\* the left sibling to the front of node.
Redistribute(t, neighbor, node, index) ==
  LET nb == t.pages[neighbor]
      nd == t.pages[node]
      parent == nd.parent
      pp == t.pages[parent]
  IN IF IsLeafPage(nd)
     THEN IF index = 0
          THEN LET nb1 == [nb EXCEPT !.keys = Tail(@), !.vals = Tail(@)]
                   nd1 == [nd EXCEPT !.keys = Append(@, nb.keys[1]),
                                     !.vals = Append(@, nb.vals[1])]
               IN [t EXCEPT !.pages[neighbor] = nb1, !.pages[node] = nd1,
                            !.pages[parent] =
                               SetKeyAt(pp, ValueIndex(pp, neighbor), nb1.keys[1])]
          ELSE LET n == Size(nb)
                   nb1 == [nb EXCEPT !.keys = SubSeq(@, 1, n - 1),
                                     !.vals = SubSeq(@, 1, n - 1)]
                   nd1 == [nd EXCEPT !.keys = <<nb.keys[n]>> \o @,
                                     !.vals = <<nb.vals[n]>> \o @]
               IN [t EXCEPT !.pages[neighbor] = nb1, !.pages[node] = nd1,
                            !.pages[parent] =
                               SetKeyAt(pp, ValueIndex(pp, node), nd1.keys[1])]
     ELSE IF index = 0
          THEN LET middle_key == KeyAt(pp, ValueIndex(pp, neighbor))
                   nb1 == InternalRemove(nb, 0)
                   nd1 == InternalInsert(nd, Size(nd), middle_key, nb.vals[1])
               IN [t EXCEPT !.pages = [Adopt(@, <<nb.vals[1]>>, node) EXCEPT
                                         ![neighbor] = nb1, ![node] = nd1,
                                         ![parent] = SetKeyAt(pp, ValueIndex(pp, neighbor),
                                                              KeyAt(nb1, 0))]]
          ELSE LET n == Size(nb)
                   nb1 == InternalRemove(nb, n - 1)
                   nd1 == InternalInsert(nd, 0, nb.keys[n], nb.vals[n])
               IN [t EXCEPT !.pages = [Adopt(@, <<nb.vals[n]>>, node) EXCEPT
                                         ![neighbor] = nb1, ![node] = nd1,
                                         ![parent] = SetKeyAt(pp, ValueIndex(pp, node),
                                                              KeyAt(nd1, 0))]]

\* The sibling that can give a pair away.
CanSpare(p) ==
  IF IsLeafPage(p) THEN Size(p) > GetMinSize(p) ELSE Size(p) - 1 > GetMinSize(p)

RECURSIVE CoalesceOrRedistribute(_, _)
RECURSIVE Coalesce(_, _, _)
\* Coalesce(neighbor_node, node, parent, index): all pairs of node go to
\* neighbor_node, the parent loses its entry for node.
Coalesce(t, neighbor, node) ==
  LET nb == t.pages[neighbor]
      nd == t.pages[node]
  IN IF IsLeafPage(nd)
     THEN LET parent == nb.parent
              pp == t.pages[parent]
              nb1 == [nb EXCEPT !.keys = @ \o nd.keys, !.vals = @ \o nd.vals,
                                !.next = nd.next]
              nd1 == [nd EXCEPT !.keys = <<>>, !.vals = <<>>]
              pp1 == InternalRemove(pp, ValueIndex(pp, node))
              t1 == [DeletePage([t EXCEPT !.pages[neighbor] = nb1,
                                          !.pages[node] = nd1], node)
                       EXCEPT !.pages[parent] = pp1]
          IN IF Size(pp1) - 1 < GetMinSize(pp1)
             THEN CoalesceOrRedistribute(t1, parent)
             ELSE t1
     ELSE LET parent == nd.parent
              pp == t.pages[parent]
              index == ValueIndex(pp, node)
              middle_key == KeyAt(pp, index)
              nb1 == [nb EXCEPT !.keys = @ \o <<middle_key>> \o Tail(nd.keys),
                                !.vals = @ \o nd.vals]
              nd1 == [nd EXCEPT !.keys = <<>>, !.vals = <<>>]
              pp1 == InternalRemove(pp, index)
              t1 == [DeletePage([t EXCEPT !.pages = [Adopt(@, nd.vals, neighbor) EXCEPT
                                                      ![neighbor] = nb1, ![node] = nd1]],
                                node)
                       EXCEPT !.pages[parent] = pp1]
          IN IF Size(pp1) - 1 < GetMinSize(pp1)
             THEN CoalesceOrRedistribute(t1, parent)
             ELSE t1

CoalesceOrRedistribute(t, node) ==
  IF node = t.root THEN AdjustRoot(t, node)
  ELSE LET pp == t.pages[t.pages[node].parent]
           index == ValueIndex(pp, node)
       IN IF index + 1 < Size(pp) /\ CanSpare(t.pages[ValueAt(pp, index + 1)])
          THEN Redistribute(t, ValueAt(pp, index + 1), node, 0)
          ELSE IF index - 1 >= 0 /\ CanSpare(t.pages[ValueAt(pp, index - 1)])
          THEN Redistribute(t, ValueAt(pp, index - 1), node, 1)
          ELSE IF index - 1 >= 0
          THEN Coalesce(t, ValueAt(pp, index - 1), node)
          ELSE Coalesce(t, node, ValueAt(pp, index + 1))

\* Remove(key).  In the comparison of line 261 the size is read before the
\* pair is removed.
Remove(t, key) ==
  LET leaf == FindLeafPage(t, key, FALSE)
      before == t.pages[leaf]
      after == RemoveAndDeleteRecord(before, key)
  IN IF Size(before) # Size(after)
     THEN LET index == LeafKeyIndex(after, key)
              parent_page_id == after.parent
              parent_index == InternalKeyIndex(t.pages[parent_page_id], key)
              t1 == [t EXCEPT !.pages[leaf] = after]
              t2 == IF index = 0 /\ parent_page_id > 0 /\ parent_index >= 0
                    THEN [t1 EXCEPT !.pages[parent_page_id] =
                                       SetKeyAt(@, parent_index, LeafKeyAt0(after, key))]
                    ELSE t1
          IN IF Size(after) < GetMinSize(after)
             THEN CoalesceOrRedistribute(t2, leaf)
             ELSE t2
     ELSE t

\* The part of Remove that follows FindLeafPageRW, on the leaf the caller
\* has reached.
RemoveAtLeaf(t, leaf, key) ==
  LET before == t.pages[leaf]
      after == RemoveAndDeleteRecord(before, key)
  IN IF Size(before) # Size(after)
     THEN LET index == LeafKeyIndex(after, key)
              parent_page_id == after.parent
              parent_index == InternalKeyIndex(t.pages[parent_page_id], key)
              t1 == [t EXCEPT !.pages[leaf] = after]
              t2 == IF index = 0 /\ parent_page_id > 0 /\ parent_index >= 0
                    THEN [t1 EXCEPT !.pages[parent_page_id] =
                                       SetKeyAt(@, parent_index, LeafKeyAt0(after, key))]
                    ELSE t1
          IN IF Size(after) < GetMinSize(after)
             THEN CoalesceOrRedistribute(t2, leaf)
             ELSE t2
     ELSE t

\* The siblings CoalesceOrRedistribute(node) write-latches: the sibling it
\* redistributes from or coalesces with and, when the parent is left too
\* small by a coalesce, those of the call on the parent.
RECURSIVE SiblingLatches(_, _)
SiblingLatches(t, node) ==
  IF node = t.root THEN {}
  ELSE LET parent == t.pages[node].parent
           pp == t.pages[parent]
           index == ValueIndex(pp, node)
       IN IF index + 1 < Size(pp) /\ CanSpare(t.pages[ValueAt(pp, index + 1)])
          THEN {ValueAt(pp, index + 1)}
          ELSE IF index - 1 >= 0 /\ CanSpare(t.pages[ValueAt(pp, index - 1)])
          THEN {ValueAt(pp, index - 1)}
          ELSE {IF index - 1 >= 0 THEN ValueAt(pp, index - 1) ELSE ValueAt(pp, index + 1)}
                 \cup (IF (Size(pp) - 1) - 1 < GetMinSize(pp)
                       THEN SiblingLatches(t, parent) ELSE {})

\* The siblings Remove(key) write-latches once it holds the leaf.
RemoveLatches(t, leaf, key) ==
  IF LeafHas(t.pages[leaf], key) /\ Size(t.pages[leaf]) - 1 < GetMinSize(t.pages[leaf])
  THEN SiblingLatches(t, leaf)
  ELSE {}

\* ---- index iterator ----
\* What the iterator sees of the page it stands on.
LeafView(t, page_id) ==
  [id |-> page_id, next |-> t.pages[page_id].next,
   keys |-> t.pages[page_id].keys, vals |-> t.pages[page_id].vals]

\* A frame that was never used: all bytes zero.
ZeroPage == [id |-> 0, next |-> 0, keys |-> <<>>, vals |-> <<>>]

\* What FetchPage(INVALID_PAGE_ID) hands out: the file has no such page, and
\* the frame holds the zeroes ReadPage fills in for what it could not read.
JunkPages(t) == {ZeroPage}

begin(t) == [page |-> LeafView(t, FindLeafPage(t, ZeroKey, TRUE)), index |-> 0]

RECURSIVE RightMost(_, _)
RightMost(pgs, pid) ==
  IF IsLeafPage(pgs[pid]) THEN pid
  ELSE RightMost(pgs, ValueAt(pgs[pid], Size(pgs[pid]) - 1))

end(t) ==
  LET leaf == RightMost(t.pages, t.root)
  IN [page |-> LeafView(t, leaf), index |-> Size(t.pages[leaf])]

\* operator==: same page id and same index
IterEq(a, b) == a.page.id = b.page.id /\ a.index = b.index

\* operator*: array[index_]; past the pairs of the page the bytes are zero
Deref(it) ==
  IF it.index < Len(it.page.vals)
  THEN <<it.page.keys[it.index + 1], it.page.vals[it.index + 1]>>
  ELSE <<ZeroKey, NoVal>>

\* operator++
Advance(t, it, junk) ==
  IF it.index + 1 = Len(it.page.vals) /\ it.page.next # 0
  THEN [page |-> IF it.page.next = INVALID_PAGE_ID THEN junk
                 ELSE LeafView(t, it.page.next),
        index |-> 0]
  ELSE [it EXCEPT !.index = @ + 1]

\* for (it = begin(); it != end(); ++it) the pairs *it, cut off after fuel
\* steps.
RECURSIVE Walk(_, _, _, _, _)
Walk(t, it, junk, out, fuel) ==
  IF IterEq(it, end(t)) THEN [reached |-> TRUE, pairs |-> out]
  ELSE IF fuel = 0 THEN [reached |-> FALSE, pairs |-> out]
  ELSE Walk(t, Advance(t, it, junk), junk, Append(out, Deref(it)), fuel - 1)

\* ---- actions ----
Tree == [pages |-> pages, root |-> root_page_id_, next |-> next_page_id,
         hdr |-> header_record]

Constructed == leaf_max_size_ > 0

NoOutcome == [op |-> "none"]

Configs == {<<2, 3>>, <<2, 4>>, <<3, 3>>}

BPlusTree(leaf_max_size, internal_max_size) ==
  /\ ~Constructed
  /\ leaf_max_size_' = leaf_max_size
  /\ internal_max_size_' = internal_max_size
  /\ root_page_id_' = INVALID_PAGE_ID
  /\ UNCHANGED <<pages, next_page_id, header_record, live, result>>
  /\ UNCHANGED notTree

SetTree(t) ==
  /\ pages' = t.pages
  /\ root_page_id_' = t.root
  /\ next_page_id' = t.next
  /\ header_record' = t.hdr

\* Insert(key, value), with at most max_pages page ids in use.
InsertStep(key, value, max_pages) ==
  /\ Constructed
  /\ LET r == InsertIntoLeaf(Tree, key, value)
     IN /\ r.t.next <= max_pages + 1
        /\ SetTree(r.t)
        /\ result' = [op |-> "Insert", ret |-> r.ret]
        /\ live' = IF r.ret
                   THEN [k \in DOMAIN live \cup {key} |->
                           IF k = key THEN value ELSE live[k]]
                   ELSE live
  /\ UNCHANGED <<leaf_max_size_, internal_max_size_>>
  /\ UNCHANGED notTree

\* The caller inserts key k with the RID k; an Insert of a key it has already
\* inserted may carry another RID.
TreeInsert(key, value) ==
  /\ key \in DOMAIN live \/ value = key
  /\ InsertStep(key, value, MaxPages)

\* Loading in descending key order: the key inserted is the one below the
\* smallest key of the tree.
TreeInsertBelow ==
  LET key == IF DOMAIN live = {} THEN MaxLoadKey
             ELSE (CHOOSE k \in DOMAIN live : \A j \in DOMAIN live : k <= j) - 1
  IN /\ key >= 1
     /\ InsertStep(key, key, MaxLoadPages)

\* Loading in ascending key order, 1 first.
TreeInsertAbove ==
  /\ DOMAIN live = 1..Cardinality(DOMAIN live)
  /\ Cardinality(DOMAIN live) < MaxCascadeKey
  /\ InsertStep(Cardinality(DOMAIN live) + 1, Cardinality(DOMAIN live) + 1,
                MaxCascadePages)

\* An Insert of a key the tree holds.
TreeInsertAgain(key) ==
  /\ key \in DOMAIN live
  /\ InsertStep(key, key, MaxCascadePages)

TreeRemove(key) ==
  /\ Constructed
  /\ ~IsEmpty(Tree)
  /\ SetTree(Remove(Tree, key))
  /\ result' = [op |-> "Remove"]
  /\ live' = [k \in DOMAIN live \ {key} |-> live[k]]
  /\ UNCHANGED <<leaf_max_size_, internal_max_size_>>
  /\ UNCHANGED notTree

TreeIterate(junk) ==
  /\ Constructed
  /\ ~IsEmpty(Tree)
  /\ LET w == Walk(Tree, begin(Tree), junk, <<>>, MaxScan)
     IN result' = [op |-> "Iterate", reached |-> w.reached, pairs |-> w.pairs]
  /\ UNCHANGED <<pages, root_page_id_, next_page_id, header_record,
                 leaf_max_size_, internal_max_size_, live>>
  /\ UNCHANGED notTree


(***************************************************************************)
(* Threads that call GetValue, Insert and Remove with a transaction        *)
(* record, so that FindLeafPageRW takes page latches.  A thread's steps    *)
(* are the points where it may have to wait for a latch: each hop of the   *)
(* descent, the latching of the leaf, and the rest of the call.  Every     *)
(* call starts with a record whose page set is empty.  The latch of a page *)
(* is its writer (0: none) and the read holds of each thread.  Releasing a *)
(* latch one does not hold has no defined outcome: a run is followed up to *)
(* the first such release, which crab.misuse records, and so has          *)
(* FetchPage of an id that names no page, which crab.wild records, the    *)
(* thread staying where it made the call.  crab.sideways                   *)
(* records that a thread latched a page that is not on its path from the   *)
(* root.  pins follows the FetchPage and UnpinPage calls of the descents;  *)
(* the calls made inside Split, InsertIntoParent and                       *)
(* CoalesceOrRedistribute are not followed.                                *)
(***************************************************************************)
NoLatch == [writer |-> 0, readers |-> [t \in Threads |-> 0]]

NoRet == [done |-> FALSE, found |-> FALSE, value |-> NoVal]

IdleThread == [pc |-> "idle", op |-> "none", key |-> ZeroKey, page |-> INVALID_PAGE_ID,
               page_set |-> <<>>, ret |-> NoRet]

HeldBy(l, t) == l.writer = t \/ l.readers[t] > 0

\* Page::RLatch and Page::WLatch return once these hold.
CanRLatch(l) == l.writer = 0

CanWLatch(l) == l.writer = 0 /\ \A u \in Threads : l.readers[u] = 0

CanLatch(l, op) == IF op = "READ" THEN CanRLatch(l) ELSE CanWLatch(l)

\* c is [lt, pn, bad]: the latches, the pins, and whether a latch was
\* released by a thread that did not hold it.
Latch(c, t, p, op) ==
  IF op = "READ" THEN [c EXCEPT !.lt[p].readers[t] = @ + 1]
  ELSE [c EXCEPT !.lt[p].writer = t]

Unlatch(c, t, p, op) ==
  IF op = "READ"
  THEN IF c.lt[p].readers[t] > 0 THEN [c EXCEPT !.lt[p].readers[t] = @ - 1]
       ELSE [c EXCEPT !.bad = TRUE]
  ELSE IF c.lt[p].writer = t THEN [c EXCEPT !.lt[p].writer = 0]
       ELSE [c EXCEPT !.bad = TRUE]

PinPage(c, p) == [c EXCEPT !.pn[p] = @ + 1]

\* UnpinPage returns false and changes nothing when the pin count is 0.
UnpinPage(c, p) == IF c.pn[p] <= 0 THEN c ELSE [c EXCEPT !.pn[p] = @ - 1]

\* UnLatchAndUnpin: every page of the page set is unlatched and unpinned;
\* the page set is left as it is.
RECURSIVE UnLatchAndUnpin(_, _, _, _)
UnLatchAndUnpin(c, t, op, page_set) ==
  IF page_set = <<>> THEN c
  ELSE UnLatchAndUnpin(UnpinPage(Unlatch(c, t, Head(page_set), op), Head(page_set)),
                       t, op, Tail(page_set))

\* IsSafe of the internal page; the leaf page has the same rule.
IsSafe(p, op) ==
  IF op = "INSERT" THEN Size(p) < GetMaxSize(p) ELSE Size(p) - 1 > GetMinSize(p)

Crab == [lt |-> latches, pn |-> pins, bad |-> FALSE]

SetCrab(c, sideways) ==
  /\ latches' = c.lt
  /\ pins' = c.pn
  /\ crab' = [crab EXCEPT !.misuse = @ \/ c.bad, !.sideways = @ \/ sideways]

\* The threads inside InsertIntoLeaf that saw IsEmpty and have not yet left
\* StartNewTree.
InStartNewTree == {u \in Threads : threads[u].pc \in {"newtree", "locked"}}

\* Nothing is followed past a release of a latch not held or a fetch of an
\* id that names no page.
Cut == crab.misuse \/ crab.wild

\* The call is made: Insert asks IsEmpty, GetValue and Remove do not, and
\* FindLeafPageRW fetches root_page_id_.  Insert into an empty tree goes to
\* StartNewTree, which latches no page; crab.first is the set of the threads
\* whose calls saw the tree empty together.
CrabStart(t, op, key) ==
  /\ ~Cut
  /\ crab.calls < MaxCrabCalls
  /\ threads[t].pc = "idle"
  /\ IF IsEmpty(Tree)
     THEN /\ IF op = "INSERT"
             THEN /\ threads' = [threads EXCEPT
                                   ![t] = [IdleThread EXCEPT
                                             !.pc = "newtree", !.op = op, !.key = key]]
                  /\ crab' = [crab EXCEPT !.calls = @ + 1,
                                          !.first = IF InStartNewTree = {} THEN {t}
                                                    ELSE @ \cup {t}]
             ELSE /\ threads' = [threads EXCEPT
                                   ![t] = [IdleThread EXCEPT
                                             !.pc = "fetch", !.op = op, !.key = key]]
                  /\ crab' = [crab EXCEPT !.calls = @ + 1, !.wild = TRUE]
          /\ UNCHANGED <<latches, pins>>
     ELSE /\ threads' = [threads EXCEPT
                           ![t] = [pc |-> "descend", op |-> op, key |-> key,
                                   page |-> root_page_id_, page_set |-> <<>>,
                                   ret |-> NoRet]]
          /\ latches' = latches
          /\ pins' = PinPage(Crab, root_page_id_).pn
          /\ crab' = [crab EXCEPT !.calls = @ + 1, !.first = {}]
  /\ UNCHANGED <<pages, root_page_id_, next_page_id, header_record, live>>
  /\ UNCHANGED <<leaf_max_size_, internal_max_size_, result>>
  /\ UNCHANGED <<lockVars, graphVars, detect_round, poolVars>>

\* StartNewTree, its first statement: latch_.lock() returns.
CrabLock(t) ==
  /\ ~Cut
  /\ threads[t].pc = "newtree"
  /\ crab.latch_ = 0
  /\ threads' = [threads EXCEPT ![t].pc = "locked"]
  /\ crab' = [crab EXCEPT !.latch_ = t]
  /\ UNCHANGED <<latches, pins>>
  /\ UNCHANGED <<pages, root_page_id_, next_page_id, header_record, live,
                 leaf_max_size_, internal_max_size_, result>>
  /\ UNCHANGED <<lockVars, graphVars, detect_round, poolVars>>

\* The rest of StartNewTree, to latch_.unlock(), and the return of Insert.
CrabNewTree(t) ==
  LET th == threads[t]
  IN /\ ~Cut
     /\ th.pc = "locked"
     /\ SetTree(StartNewTree(Tree, th.key, th.key))
     /\ live' = [k \in DOMAIN live \cup {th.key} |-> k]
     /\ threads' = [threads EXCEPT
                      ![t] = [IdleThread EXCEPT
                                !.op = th.op, !.key = th.key,
                                !.ret = [done |-> TRUE, found |-> TRUE,
                                         value |-> th.key]]]
     /\ crab' = [crab EXCEPT !.latch_ = 0]
     /\ UNCHANGED <<latches, pins>>
     /\ UNCHANGED <<leaf_max_size_, internal_max_size_, result>>
     /\ UNCHANGED <<lockVars, graphVars, detect_round, poolVars>>

\* The page is latched; the pages of the page set are released when the
\* call reads or the page is safe.
LatchAndRelease(t, p) ==
  LET th == threads[t]
      c == Latch(Crab, t, p, th.op)
  IN IF th.op = "READ" \/ IsSafe(pages[p], th.op)
     THEN UnLatchAndUnpin(c, t, th.op, th.page_set)
     ELSE c

\* One turn of the loop of FindLeafPageRW, on an internal page.
CrabDescend(t) ==
  LET th == threads[t]
      p == th.page
  IN /\ ~Cut
     /\ th.pc = "descend"
     /\ p \in DOMAIN pages
     /\ ~IsLeafPage(pages[p])
     /\ CanLatch(latches[p], th.op)
     /\ LET child == InternalLookup(pages[p], th.key)
        IN /\ SetCrab(PinPage(LatchAndRelease(t, p), child), FALSE)
           /\ threads' = [threads EXCEPT ![t].page = child,
                                         ![t].page_set = Append(@, p)]
     /\ UNCHANGED <<pages, root_page_id_, next_page_id, header_record, live,
                    leaf_max_size_, internal_max_size_, result>>
     /\ UNCHANGED <<lockVars, graphVars, detect_round, poolVars>>

\* FindLeafPageRW has returned the leaf: the caller latches it.
CrabLeaf(t) ==
  LET th == threads[t]
      p == th.page
  IN /\ ~Cut
     /\ th.pc = "descend"
     /\ p \in DOMAIN pages
     /\ IsLeafPage(pages[p])
     /\ CanLatch(latches[p], th.op)
     /\ SetCrab(LatchAndRelease(t, p), FALSE)
     /\ threads' = [threads EXCEPT ![t].pc = "latched"]
     /\ UNCHANGED <<pages, root_page_id_, next_page_id, header_record, live,
                    leaf_max_size_, internal_max_size_, result>>
     /\ UNCHANGED <<lockVars, graphVars, detect_round, poolVars>>

\* Remove has left thread t's leaf too small, the leaf is not the page
\* root_page_id_ names, and its parent id names no page: the leaf of a root
\* that root_page_id_ no longer names.  CoalesceOrRedistribute fetches the
\* parent id.
OrphanLeaf(t) ==
  LET th == threads[t]
  IN /\ th.op = "DELETE"
     /\ th.page \in DOMAIN pages
     /\ LeafHas(pages[th.page], th.key)
     /\ Size(pages[th.page]) - 1 < GetMinSize(pages[th.page])
     /\ th.page # root_page_id_
     /\ pages[th.page].parent \notin DOMAIN pages

\* The siblings the rest of the call write-latches.
Siblings(t) ==
  IF threads[t].op = "DELETE" /\ ~OrphanLeaf(t)
  THEN RemoveLatches(Tree, threads[t].page, threads[t].key)
  ELSE {}

\* The rest of the call: the work on the leaf, with the siblings latched
\* while CoalesceOrRedistribute works on them, then the release of the page
\* set (Insert and Remove), of the leaf's latch and of its pin.
CrabFinish(t) ==
  LET th == threads[t]
      p == th.page
      c == IF th.op = "READ" THEN Crab
           ELSE UnLatchAndUnpin(Crab, t, th.op, th.page_set)
      done == UnpinPage(Unlatch(c, t, p, th.op), p)
  IN /\ ~Cut
     /\ th.pc = "latched"
     /\ \A q \in Siblings(t) : CanWLatch(latches[q])
     /\ IF OrphanLeaf(t)
        THEN /\ threads' = [threads EXCEPT ![t].pc = "fetch"]
             /\ crab' = [crab EXCEPT !.wild = TRUE]
             /\ UNCHANGED <<latches, pins>>
             /\ UNCHANGED <<pages, root_page_id_, next_page_id, header_record, live>>
        ELSE IF th.op = "READ"
        THEN /\ SetCrab(done, FALSE)
             /\ threads' = [threads EXCEPT
                              ![t] = [IdleThread EXCEPT
                                        !.op = th.op, !.key = th.key,
                                        !.ret = [done |-> TRUE,
                                                 found |-> LeafLookup(pages[p], th.key).found,
                                                 value |-> LeafLookup(pages[p], th.key).value]]]
             /\ UNCHANGED <<pages, root_page_id_, next_page_id, header_record, live>>
        ELSE IF th.op = "INSERT"
        THEN LET r == InsertAtLeaf(Tree, p, th.key, th.key)
             IN /\ r.t.next <= MaxCrabPages + 1
                /\ SetCrab(done, FALSE)
                /\ SetTree(r.t)
                /\ live' = IF r.ret THEN [k \in DOMAIN live \cup {th.key} |-> k] ELSE live
                /\ threads' = [threads EXCEPT
                                 ![t] = [IdleThread EXCEPT
                                           !.op = th.op, !.key = th.key,
                                           !.ret = [done |-> TRUE, found |-> r.ret,
                                                    value |-> th.key]]]
        ELSE /\ SetCrab(done, Siblings(t) # {})
             /\ SetTree(RemoveAtLeaf(Tree, p, th.key))
             /\ live' = [k \in DOMAIN live \ {th.key} |-> k]
             /\ threads' = [threads EXCEPT
                              ![t] = [IdleThread EXCEPT !.op = th.op, !.key = th.key,
                                                        !.ret = [NoRet EXCEPT !.done = TRUE]]]
     /\ UNCHANGED <<leaf_max_size_, internal_max_size_, result>>
     /\ UNCHANGED <<lockVars, graphVars, detect_round, poolVars>>


(***************************************************************************)
(* Buffer pool manager and LRU replacer.  pages_[f] is the metadata of     *)
(* frame f (page_id_, pin_count_, is_dirty_), page_table_ maps the page    *)
(* ids in the pool to their frames, free_list_ and lruList are the lists   *)
(* of the code, front first.                                               *)
(***************************************************************************)
Frames == 0..(PoolSize - 1)

\* The page ids the disk manager has allocated so far: the callers name no
\* other page.
AllocatedPages == 0..(disk_next_page_id - 1)

\* Victim taking the front of the list.
VictimFrame_Front(lru) == lru[1]

\* LRUReplacer::Victim: the back of the list, removed
VictimFrame(lru) == lru[Len(lru)]

AfterVictim(lru) == SubSeq(lru, 1, Len(lru) - 1)

\* Pin that leaves the frame in the list.
Pin_Keep(lru, frame_id) == lru

\* LRUReplacer::Pin
Pin(lru, frame_id) == SelectSeq(lru, LAMBDA f : f # frame_id)

\* LRUReplacer::Unpin, capacity = pool size
Unpin(lru, frame_id) ==
  IF frame_id \in Range(lru) THEN lru
  ELSE IF Len(lru) >= PoolSize THEN <<frame_id>> \o Tail(lru)
  ELSE <<frame_id>> \o lru

\* The pool as a record, for the helpers below.
Pool == [pages_ |-> pages_, page_table_ |-> page_table_, free_list_ |-> free_list_,
         lruList |-> lruList]

\* The disk manager's calls, as the pool makes them.
WritePage(page_id) == [op |-> "write_page", page_id |-> page_id]

ReadPage(page_id) == [op |-> "read_page", page_id |-> page_id]

\* Pool eviction: three pages made, the first unpinned clean, the second
\* unpinned dirty, a fourth page made, the second page fetched.
EvictionScenario ==
  << [op |-> "NewPage", page_id |-> 0, is_dirty |-> FALSE],
     [op |-> "NewPage", page_id |-> 1, is_dirty |-> FALSE],
     [op |-> "NewPage", page_id |-> 2, is_dirty |-> FALSE],
     [op |-> "UnpinPage", page_id |-> 0, is_dirty |-> FALSE],
     [op |-> "UnpinPage", page_id |-> 1, is_dirty |-> TRUE],
     [op |-> "NewPage", page_id |-> 3, is_dirty |-> FALSE],
     [op |-> "FetchPage", page_id |-> 1, is_dirty |-> FALSE] >>

Off == 0 - 1

\* The return of a call: what the caller sees and the bookkeeping of the
\* calls made.  page_id of NewPage is the id allocated.
Return(op, ok, page_id, is_dirty, io) ==
  /\ pool_ret' = [op |-> op, ok |-> ok, page_id |-> page_id, is_dirty |-> is_dirty,
                  io |-> io]
  /\ handles' = IF ok /\ op \in {"FetchPage", "NewPage"} THEN handles + 1
                ELSE IF ok /\ op = "UnpinPage" THEN handles - 1
                ELSE handles
  /\ scenario' = IF /\ scenario # Off
                    /\ scenario < Len(EvictionScenario)
                    /\ EvictionScenario[scenario + 1] =
                         [op |-> op, page_id |-> page_id, is_dirty |-> is_dirty]
                 THEN scenario + 1
                 ELSE Off
  /\ UNCHANGED replacerVars

\* The function f without the argument x
Without(f, x) == [y \in (DOMAIN f) \ {x} |-> f[y]]

\* FindReplace that never asks the replacer.
FindReplace_FreeListOnly(b) ==
  IF b.free_list_ # <<>>
  THEN [ok |-> TRUE, frame |-> Head(b.free_list_), io |-> <<>>,
        b |-> [b EXCEPT !.free_list_ = Tail(@)]]
  ELSE [ok |-> FALSE, frame |-> 0, io |-> <<>>, b |-> b]

\* FindReplace: a frame from the free list, else the replacer's victim, whose
\* page loses its mapping.  ok is false when there is neither.
FindReplace(b) ==
  IF b.free_list_ # <<>>
  THEN [ok |-> TRUE, frame |-> Head(b.free_list_), io |-> <<>>,
        b |-> [b EXCEPT !.free_list_ = Tail(@)]]
  ELSE IF b.lruList # <<>>
  THEN LET f == VictimFrame(b.lruList)
           mapped == {p \in DOMAIN b.page_table_ : b.page_table_[p] = f}
       IN [ok |-> TRUE, frame |-> f,
           io |-> IF mapped # {} /\ b.pages_[f].is_dirty_
                  THEN <<WritePage(CHOOSE p \in mapped : TRUE)>> ELSE <<>>,
           b |-> [b EXCEPT !.lruList = AfterVictim(@),
                           !.page_table_ =
                              IF mapped = {} THEN @
                              ELSE Without(@, CHOOSE p \in mapped : TRUE)]]
  ELSE [ok |-> FALSE, frame |-> 0, io |-> <<>>, b |-> b]

SetPool(b) ==
  /\ pages_' = b.pages_
  /\ page_table_' = b.page_table_
  /\ free_list_' = b.free_list_
  /\ lruList' = b.lruList

\* A frame taking a page in without the pin.
Install_NoPin(b, frame, page_id, dirty) ==
  [b EXCEPT !.pages_[frame] = [page_id_ |-> page_id,
                               pin_count_ |-> b.pages_[frame].pin_count_,
                               is_dirty_ |-> dirty],
            !.lruList = Pin(@, frame),
            !.page_table_ = [p \in DOMAIN @ \cup {page_id} |->
                               IF p = page_id THEN frame ELSE @[p]]]

\* The page a frame takes in: metadata as FetchPageImpl and NewPageImpl set it.
Install(b, frame, page_id, dirty) ==
  [b EXCEPT !.pages_[frame] = [page_id_ |-> page_id,
                               pin_count_ |-> b.pages_[frame].pin_count_ + 1,
                               is_dirty_ |-> dirty],
            !.lruList = Pin(@, frame),
            !.page_table_ = [p \in DOMAIN @ \cup {page_id} |->
                               IF p = page_id THEN frame ELSE @[p]]]

FetchPageImpl(page_id) ==
  /\ IF page_id \in DOMAIN page_table_
     THEN LET frame_id == page_table_[page_id]
          IN /\ pages_[frame_id].pin_count_ < MaxPin
             /\ pages_' = [pages_ EXCEPT ![frame_id].pin_count_ = @ + 1]
             /\ lruList' = Pin(lruList, frame_id)
             /\ Return("FetchPage", TRUE, page_id, FALSE, <<>>)
             /\ UNCHANGED <<page_table_, free_list_>>
     ELSE LET r == FindReplace(Pool)
          IN IF r.ok
             THEN /\ SetPool(Install(r.b, r.frame, page_id, FALSE))
                  /\ Return("FetchPage", TRUE, page_id, FALSE,
                            Append(r.io, ReadPage(page_id)))
             ELSE /\ Return("FetchPage", FALSE, page_id, FALSE, <<>>)
                  /\ UNCHANGED <<pages_, page_table_, free_list_, lruList>>
  /\ UNCHANGED disk_next_page_id
  /\ UNCHANGED notPool

NewPageImpl ==
  /\ disk_next_page_id < MaxPoolPages
  /\ disk_next_page_id' = disk_next_page_id + 1
  /\ LET r == FindReplace(Pool)
     IN IF r.ok
        THEN /\ SetPool(Install(r.b, r.frame, disk_next_page_id, TRUE))
             /\ Return("NewPage", TRUE, disk_next_page_id, FALSE, r.io)
        ELSE /\ Return("NewPage", FALSE, disk_next_page_id, FALSE, <<>>)
             /\ UNCHANGED <<pages_, page_table_, free_list_, lruList>>
  /\ UNCHANGED notPool

\* UnpinPageImpl without the test for a pin count of 0.
UnpinPageImpl_Again(page_id, is_dirty) ==
  /\ IF page_id \notin DOMAIN page_table_
     THEN /\ Return("UnpinPage", FALSE, page_id, is_dirty, <<>>)
          /\ UNCHANGED <<pages_, lruList>>
     ELSE LET frame_id == page_table_[page_id]
          IN /\ pages_' = [pages_ EXCEPT ![frame_id].pin_count_ = @ - 1]
             /\ lruList' = IF pages_[frame_id].pin_count_ = 1
                           THEN Unpin(lruList, frame_id) ELSE lruList
             /\ Return("UnpinPage", TRUE, page_id, is_dirty, <<>>)
  /\ UNCHANGED <<page_table_, free_list_, disk_next_page_id>>
  /\ UNCHANGED notPool

UnpinPageImpl(page_id, is_dirty) ==
  /\ IF page_id \notin DOMAIN page_table_
     THEN /\ Return("UnpinPage", FALSE, page_id, is_dirty, <<>>)
          /\ UNCHANGED <<pages_, lruList>>
     ELSE LET frame_id == page_table_[page_id]
          IN IF pages_[frame_id].pin_count_ = 0
             THEN /\ Return("UnpinPage", FALSE, page_id, is_dirty, <<>>)
                  /\ UNCHANGED <<pages_, lruList>>
             ELSE /\ pages_' = [pages_ EXCEPT ![frame_id].pin_count_ = @ - 1]
                  /\ lruList' = IF pages_[frame_id].pin_count_ = 1
                                THEN Unpin(lruList, frame_id) ELSE lruList
                  /\ Return("UnpinPage", TRUE, page_id, is_dirty, <<>>)
  /\ UNCHANGED <<page_table_, free_list_, disk_next_page_id>>
  /\ UNCHANGED notPool

FlushPageImpl(page_id) ==
  /\ IF page_id \notin DOMAIN page_table_
     THEN /\ Return("FlushPage", FALSE, page_id, FALSE, <<>>)
          /\ UNCHANGED pages_
     ELSE /\ pages_' = [pages_ EXCEPT ![page_table_[page_id]].is_dirty_ = FALSE]
          /\ Return("FlushPage", TRUE, page_id, FALSE, <<WritePage(page_id)>>)
  /\ UNCHANGED <<page_table_, free_list_, lruList, disk_next_page_id>>
  /\ UNCHANGED notPool

DeletePageImpl(page_id) ==
  /\ IF page_id \notin DOMAIN page_table_
     THEN /\ Return("DeletePage", TRUE, page_id, FALSE, <<>>)
          /\ UNCHANGED <<page_table_, free_list_>>
     ELSE LET frame_id == page_table_[page_id]
          IN IF pages_[frame_id].pin_count_ > 0
             THEN /\ Return("DeletePage", FALSE, page_id, FALSE, <<>>)
                  /\ UNCHANGED <<page_table_, free_list_>>
             ELSE /\ page_table_' = Without(page_table_, page_id)
                  /\ free_list_' = Append(free_list_, frame_id)
                  /\ Return("DeletePage", TRUE, page_id, FALSE, <<>>)
  /\ UNCHANGED <<pages_, lruList, disk_next_page_id>>
  /\ UNCHANGED notPool


(***************************************************************************)
(* The LRUReplacer called directly: Victim, Pin and Unpin on a replacer of *)
(* capacity PoolSize, with frame ids that need not be frames of a pool.    *)
(* Beside lruList the calls keep a reference queue, which does what the    *)
(* replacer is specified to do, and the order of the Unpin calls.          *)
(***************************************************************************)
ReplacerFrames == 0..PoolSize

\* The reference: unpin of an absent frame enqueues it at the front and
\* drops the oldest entry, the back, if the size would exceed the capacity.
RefUnpin(q, frame_id) ==
  IF frame_id \in Range(q) THEN q
  ELSE IF Len(q) >= PoolSize THEN <<frame_id>> \o SubSeq(q, 1, Len(q) - 1)
  ELSE <<frame_id>> \o q

RefPin(q, frame_id) == SelectSeq(q, LAMBDA f : f # frame_id)

ReplacerUnchangedPool ==
  UNCHANGED <<pages_, page_table_, free_list_, disk_next_page_id, pool_ret,
              handles, scenario>>

ReplacerVictim ==
  /\ IF lruList = <<>>
     THEN /\ replacer_ret' = [op |-> "Victim", frame_id |-> 0, ok |-> FALSE]
          /\ UNCHANGED lruList
     ELSE /\ replacer_ret' = [op |-> "Victim", frame_id |-> VictimFrame(lruList),
                              ok |-> TRUE]
          /\ lruList' = AfterVictim(lruList)
  /\ lru_ref' = IF lru_ref = <<>> THEN lru_ref ELSE SubSeq(lru_ref, 1, Len(lru_ref) - 1)
  /\ UNCHANGED unpin_order
  /\ ReplacerUnchangedPool
  /\ UNCHANGED notPool

ReplacerPin(frame_id) ==
  /\ lruList' = Pin(lruList, frame_id)
  /\ replacer_ret' = [op |-> "Pin", frame_id |-> frame_id, ok |-> TRUE]
  /\ lru_ref' = RefPin(lru_ref, frame_id)
  /\ UNCHANGED unpin_order
  /\ ReplacerUnchangedPool
  /\ UNCHANGED notPool

ReplacerUnpin(frame_id) ==
  /\ lruList' = Unpin(lruList, frame_id)
  /\ replacer_ret' = [op |-> "Unpin", frame_id |-> frame_id, ok |-> TRUE]
  /\ lru_ref' = RefUnpin(lru_ref, frame_id)
  /\ unpin_order' = IF frame_id \in Range(lruList) THEN unpin_order
                    ELSE Append(SelectSeq(unpin_order, LAMBDA f : f # frame_id),
                                frame_id)
  /\ ReplacerUnchangedPool
  /\ UNCHANGED notPool

(***************************************************************************)
(* Initial state, and the specifications of the lock manager.                *)
(***************************************************************************)
NoResult == [called |-> FALSE, found |-> FALSE, txn_id |-> NoTxn]

IsolationLevels == {"READ_UNCOMMITTED", "REPEATABLE_READ"}

InitLock ==
  /\ lock_table = [r \in RIDs |->
                     [request_queue |-> <<>>, reading_count |-> 0, is_writting |-> FALSE]]
  /\ txn_state = [t \in Txns |-> "GROWING"]
  /\ iso \in {f \in [Txns -> IsolationLevels] :
                  \A t \in Txns : t > 1 => f[t] = "REPEATABLE_READ"}
  /\ shared_lock_set = [t \in Txns |-> {}]
  /\ exclusive_lock_set = [t \in Txns |-> {}]
  /\ txn_wait = [t \in Txns |-> NoWait]
  /\ notified = [t \in Txns |-> FALSE]
  /\ thrown = [t \in Txns |-> "none"]

InitGraph ==
  /\ waits_for = EmptyGraph
  /\ hc = NoResult
  /\ detect_round = 0

InitTree ==
  /\ pages = <<>>
  /\ root_page_id_ = INVALID_PAGE_ID
  /\ next_page_id = 1
  /\ header_record = NoRecord
  /\ leaf_max_size_ = 0
  /\ internal_max_size_ = 0
  /\ live = <<>>
  /\ result = NoOutcome

InitPool ==
  /\ pages_ = [f \in Frames |->
                 [page_id_ |-> INVALID_PAGE_ID, pin_count_ |-> 0, is_dirty_ |-> FALSE]]
  /\ page_table_ = <<>>
  /\ free_list_ = [i \in 1..PoolSize |-> i - 1]
  /\ lruList = <<>>
  /\ disk_next_page_id = 0
  /\ pool_ret = [op |-> "none", ok |-> TRUE, page_id |-> INVALID_PAGE_ID,
                 is_dirty |-> FALSE, io |-> <<>>]
  /\ handles = 0
  /\ scenario = 0
  /\ replacer_ret = [op |-> "none", frame_id |-> 0, ok |-> TRUE]
  /\ lru_ref = <<>>
  /\ unpin_order = <<>>

InitThreads ==
  /\ threads = [t \in Threads |-> IdleThread]
  /\ latches = [p \in CrabPages |-> NoLatch]
  /\ pins = [p \in CrabPages |-> 0]
  /\ crab = [misuse |-> FALSE, sideways |-> FALSE, calls |-> 0, latch_ |-> 0,
             first |-> {}, wild |-> FALSE]

Init == InitLock /\ InitGraph /\ InitTree /\ InitPool /\ InitThreads

\* The tree with leaf_max_size 3 and internal_max_size 3 that holds the keys
\* 1..n, inserted in ascending order.
EmptyTree == [pages |-> <<>>, root |-> INVALID_PAGE_ID, next |-> 1, hdr |-> NoRecord]

RECURSIVE Loaded(_)
Loaded(n) == IF n = 0 THEN EmptyTree ELSE InsertIntoLeaf(Loaded(n - 1), n, n).t

\* The start of a run on a prepopulated tree.
InitLoaded ==
  /\ InitLock /\ iso = [t \in Txns |-> "REPEATABLE_READ"]
  /\ InitGraph /\ InitPool /\ InitThreads
  /\ leaf_max_size_ = 3
  /\ internal_max_size_ = 3
  /\ result = NoOutcome
  /\ \E n \in 1..MaxCrabKey :
       /\ pages = Loaded(n).pages
       /\ root_page_id_ = Loaded(n).root
       /\ next_page_id = Loaded(n).next
       /\ header_record = Loaded(n).hdr
       /\ live = [k \in 1..n |-> k]

\* The start of a run in which no transaction calls the lock manager.
InitIdle == Init /\ iso = [t \in Txns |-> "REPEATABLE_READ"]

NextLock ==
  \/ \E t \in Txns, r \in RIDs : LockShared(t, r)
  \/ \E t \in Txns, r \in RIDs : LockExclusive(t, r)
  \/ \E t \in Txns, r \in RIDs : LockUpgrade(t, r)
  \/ \E t \in Txns, r \in RIDs : Unlock(t, r)
  \/ \E t \in Txns : WakeUp(t)
  \/ \E t \in Txns : SpuriousWakeUp(t)
  \/ DetectionTick

SpecLock == Init /\ [][NextLock]_vars

\* The transaction manager aborts a transaction whose lock call threw: it
\* releases every lock the transaction holds, one Unlock per rid.
AbortRelease(t) ==
  /\ txn_state[t] = "ABORTED"
  /\ \E r \in RIDs : Unlock(t, r)

\* Scheduling: a notified thread runs, the detection thread runs a round at
\* every interval (a round is always possible and always a step, so weak
\* fairness of it is that rounds never cease), an aborted transaction's
\* locks get released.  Nothing forces a client to make a call, and nothing
\* forces a spurious wake-up.
FairSpecLock ==
  /\ SpecLock
  /\ \A t \in Txns : WF_vars(WakeUp(t))
  /\ []<><<DetectionTick>>_vars
  /\ \A t \in Txns : WF_vars(AbortRelease(t))

(***************************************************************************)
(* Properties of the lock manager.                                         *)
(***************************************************************************)
GrantedIdx(r) ==
  {i \in 1..Len(lock_table[r].request_queue) : lock_table[r].request_queue[i].granted}

\* C1: on every RID, a granted X request is the only granted request of the
\* queue, granted S requests exist only while is_writting is false, and no
\* two transactions hold the RID exclusively.
C1_LockExclusivity ==
  \A r \in RIDs :
    LET q == lock_table[r].request_queue
    IN /\ \A i \in GrantedIdx(r) : q[i].lock_mode = "X" => GrantedIdx(r) = {i}
       /\ (\E i \in GrantedIdx(r) : q[i].lock_mode = "S") => ~lock_table[r].is_writting
       /\ \A t1, t2 \in Txns :
            (r \in exclusive_lock_set[t1] /\ r \in exclusive_lock_set[t2]) => t1 = t2

\* The last conjunct of C1 alone: the lock sets never show two exclusive
\* holders of one RID.
C1_NoTwoExclusiveHolders ==
  \A r \in RIDs : \A t1, t2 \in Txns :
    (r \in exclusive_lock_set[t1] /\ r \in exclusive_lock_set[t2]) => t1 = t2

\* The deadlock of the scenario: txn 1 holds X on rid 1 and waits for X on
\* rid 2, txn 2 holds X on rid 2 and waits for X on rid 1, and these four
\* requests are all that was ever asked.
DeadlockScenario ==
  /\ lock_table[1].request_queue =
       <<[txn_id |-> 1, lock_mode |-> "X", granted |-> TRUE],
         [txn_id |-> 2, lock_mode |-> "X", granted |-> FALSE]>>
  /\ lock_table[2].request_queue =
       <<[txn_id |-> 2, lock_mode |-> "X", granted |-> TRUE],
         [txn_id |-> 1, lock_mode |-> "X", granted |-> FALSE]>>
  /\ exclusive_lock_set[1] = {1} /\ exclusive_lock_set[2] = {2}
  /\ txn_wait[1] = [op |-> "X", rid |-> 2] /\ txn_wait[2] = [op |-> "X", rid |-> 1]
  /\ txn_state[1] = "GROWING" /\ txn_state[2] = "GROWING"
  /\ ~notified[1] /\ ~notified[2]

\* C2, first half: the step out of the deadlock (a detection round, the only
\* step possible) aborts txn 2, the younger one, and only it.
C2_TickAbortsYoungest ==
  [][DeadlockScenario => (txn_state'[2] = "ABORTED" /\ txn_state'[1] = "GROWING")]_vars

\* C2: in the deadlock scenario one detection round aborts exactly the
\* transaction with the higher id, and the survivor (txn 1) is eventually
\* granted the lock it waits for (X on rid 2).
C2_DeadlockResolved ==
  /\ C2_TickAbortsYoungest
  /\ (DeadlockScenario ~> (2 \in exclusive_lock_set[1]))

(***************************************************************************)
(* The waits-for graph on its own: graphs are built with AddEdge and       *)
(* RemoveEdge, and HasCycle is asked about them under every iteration      *)
(* order of the map.                                                       *)
(***************************************************************************)
EdgeCount(wf) == Cardinality(GetEdgeList(wf))

GraphAddEdge(a, b) ==
  /\ EdgeCount(waits_for) < MaxEdges
  /\ waits_for' = AddEdge(waits_for, a, b)
  /\ hc' = NoResult
  /\ UNCHANGED <<lockVars, detect_round, treeVars, poolVars>>

GraphRemoveEdge(a, b) ==
  /\ waits_for' = RemoveEdge(waits_for, a, b)
  /\ hc' = NoResult
  /\ UNCHANGED <<lockVars, detect_round, treeVars, poolVars>>

\* hc keeps what HasCycle returned and the graph it was asked about.
GraphHasCycle(order, re) ==
  /\ \E h \in {HasCycle(waits_for, order, re)} :
       /\ hc' = [called |-> TRUE, found |-> h.found, txn_id |-> h.txn_id]
       /\ waits_for' = h.wf
  /\ UNCHANGED <<lockVars, detect_round, treeVars, poolVars>>

NextGraph ==
  \/ \E a, b \in Vertices : GraphAddEdge(a, b)
  \/ \E a, b \in Vertices : GraphRemoveEdge(a, b)
  \/ \E order \in Perms(Vertices), re \in Rehashes(Vertices) : GraphHasCycle(order, re)

SpecGraph == Init /\ [][NextGraph]_vars

\* The simple cycles of a graph, each as the sequence of its vertices.
SimpleCycles(wf) ==
  UNION {{c \in [1..n -> Vertices] :
            /\ \A i, j \in 1..n : i # j => c[i] # c[j]
            /\ \A i \in 1..n : c[(i % n) + 1] \in Range(wf.adj[c[i]])}
         : n \in 1..MaxVertex}

\* C3: HasCycle returns true exactly on the graphs that have a cycle, and
\* the transaction it reports is the largest id of a cycle of the graph,
\* whatever the order in which the vertices are visited.
C3_VictimIsYoungestOfCycle ==
  hc.called =>
    /\ hc.found <=> (SimpleCycles(waits_for) # {})
    /\ hc.found => \E c \in SimpleCycles(waits_for) : hc.txn_id = Max(Range(c))

(***************************************************************************)
(* Specifications of the B+tree and what is claimed of it.                 *)
(***************************************************************************)
NextTree ==
  \/ \E c \in Configs : BPlusTree(c[1], c[2])
  \/ \E k \in Keys : \E v \in {k, k + 1} : TreeInsert(k, v)
  \/ \E k \in Keys : TreeRemove(k)
  \/ \E junk \in JunkPages(Tree) : TreeIterate(junk)

SpecTree == InitIdle /\ [][NextTree]_vars

\* A tree with an even internal_max_size, loaded in descending key order.
NextLoad ==
  \/ BPlusTree(2, 4)
  \/ TreeInsertBelow
  \/ \E k \in 1..MaxLoadKey : TreeRemove(k)

SpecLoad == InitIdle /\ [][NextLoad]_vars

\* Trees loaded in ascending key order and scanned.
CascadeConfigs == {<<2, 3>>, <<2, 4>>, <<3, 3>>, <<3, 4>>, <<4, 4>>}

NextCascade ==
  \/ \E c \in CascadeConfigs : BPlusTree(c[1], c[2])
  \/ TreeInsertAbove
  \/ \E k \in 1..MaxCascadeKey : TreeInsertAgain(k)
  \/ \E junk \in JunkPages(Tree) : TreeIterate(junk)

SpecCascade == InitIdle /\ [][NextCascade]_vars

\* Threads that only look keys up, on a prepopulated tree.
NextReaders ==
  \/ \E t \in Threads, k \in 1..MaxCrabKey : CrabStart(t, "READ", k)
  \/ \E t \in Threads : CrabDescend(t)
  \/ \E t \in Threads : CrabLeaf(t)
  \/ \E t \in Threads : CrabFinish(t)

SpecReaders == InitLoaded /\ [][NextReaders]_vars

\* Threads that look up, insert and remove.
NextCrab ==
  \/ \E t \in Threads, op \in {"READ", "INSERT", "DELETE"}, k \in 1..MaxCrabKey :
        CrabStart(t, op, k)
  \/ \E t \in Threads : CrabLock(t)
  \/ \E t \in Threads : CrabNewTree(t)
  \/ \E t \in Threads : CrabDescend(t)
  \/ \E t \in Threads : CrabLeaf(t)
  \/ \E t \in Threads : CrabFinish(t)

SpecCrab == InitLoaded /\ [][NextCrab]_vars

\* ---- what the claims speak of ----
LeafIds == {p \in DOMAIN pages : IsLeafPage(pages[p])}

InternalIds == {p \in DOMAIN pages : ~IsLeafPage(pages[p])}

\* The keys stored in the leaves below page pid.
RECURSIVE SubtreeKeys(_)
SubtreeKeys(pid) ==
  IF IsLeafPage(pages[pid]) THEN Range(pages[pid].keys)
  ELSE UNION {SubtreeKeys(c) : c \in Range(pages[pid].vals)}

RECURSIVE Depth(_)
Depth(pid) ==
  IF IsLeafPage(pages[pid]) THEN 1 ELSE 1 + Depth(ValueAt(pages[pid], 0))

\* The leaves met by following next_page_id from leaf pid, at most fuel of them.
RECURSIVE Chain(_, _)
Chain(pid, fuel) ==
  IF pid \notin LeafIds \/ fuel = 0 THEN <<>>
  ELSE <<pid>> \o Chain(pages[pid].next, fuel - 1)

RECURSIVE Concat(_)
Concat(ss) == IF ss = <<>> THEN <<>> ELSE Head(ss) \o Concat(Tail(ss))

StrictlyIncreasing(s) == \A i, j \in DOMAIN s : i < j => s[i] < s[j]

\* The live pairs in ascending key order.
RECURSIVE Ascending(_)
Ascending(S) ==
  IF S = {} THEN <<>>
  ELSE LET m == CHOOSE x \in S : \A y \in S : x <= y
       IN <<<<m, live[m]>>>> \o Ascending(S \ {m})

\* C4: every key whose Insert returned true and that has not been removed
\* since is found by GetValue, and the result is exactly the value inserted.
C4_InsertGetLaw ==
  \A k \in DOMAIN live :
    GetValue(Tree, k) = [ret |-> TRUE, result |-> <<live[k]>>]

C4_Witness ==
  /\ result.op = "Remove"
  /\ Cardinality(DOMAIN live) >= 4
  /\ root_page_id_ # INVALID_PAGE_ID
  /\ Depth(root_page_id_) = 3
  /\ leaf_max_size_ = 3

\* C5: once every key inserted has been removed again, the tree is empty:
\* IsEmpty() is true and root_page_id is INVALID_PAGE_ID.
C5_RoundTrip ==
  (Constructed /\ DOMAIN live = {}) =>
    (IsEmpty(Tree) /\ root_page_id_ = INVALID_PAGE_ID)

C5_Witness ==
  /\ result.op = "Remove"
  /\ DOMAIN live = {}
  /\ next_page_id > 7
  /\ root_page_id_ = INVALID_PAGE_ID

\* C6: an iteration from begin() reaches end(), and the pairs it dereferences
\* on the way are exactly the live pairs in ascending key order.
C6_IteratorLaw ==
  result.op = "Iterate" =>
    (result.reached /\ result.pairs = Ascending(DOMAIN live))

C8_Occupancy ==
  /\ \A p \in DOMAIN pages :
       p # root_page_id_ =>
         /\ GetMinSize(pages[p]) <= Size(pages[p])
         /\ Size(pages[p]) <= IF IsLeafPage(pages[p]) THEN GetMaxSize(pages[p]) - 1
                              ELSE GetMaxSize(pages[p])
  /\ \A p \in InternalIds :
       \A i \in 1..(Size(pages[p]) - 1) :
         /\ \A k \in SubtreeKeys(ValueAt(pages[p], i)) : k >= KeyAt(pages[p], i)
         /\ \A k \in SubtreeKeys(ValueAt(pages[p], i - 1)) : k < KeyAt(pages[p], i)

\* C9: an Insert of a key the tree holds returns false and changes nothing.
\* In a step of Insert, live gains a key exactly when the key was not in the
\* tree: so an Insert that returns true must have added a key, and an Insert
\* that returns false must leave pages, root, the next page id, the header
\* record and the stored pairs as they were.
C9_DuplicateInsert ==
  [][result'.op = "Insert" =>
       /\ result'.ret => DOMAIN live' # DOMAIN live
       /\ ~result'.ret =>
            UNCHANGED <<pages, root_page_id_, next_page_id, header_record, live>>]_vars

C9_Witness ==
  /\ result = [op |-> "Insert", ret |-> FALSE]
  /\ Cardinality(DOMAIN live) >= 3

\* The key of slot 0 that PopulateNewRoot leaves unwritten is never used as a
\* separator.
SlotZeroUnused ==
  \A p \in InternalIds : \A i \in 1..(Size(pages[p]) - 1) : KeyAt(pages[p], i) # ZeroKey

(***************************************************************************)
(* Specification of the buffer pool and what is claimed of it.             *)
(***************************************************************************)
NextPool ==
  \/ \E p \in AllocatedPages : FetchPageImpl(p)
  \/ NewPageImpl
  \/ \E p \in AllocatedPages, d \in BOOLEAN : UnpinPageImpl(p, d)
  \/ \E p \in AllocatedPages : FlushPageImpl(p)
  \/ \E p \in AllocatedPages : DeletePageImpl(p)

SpecPool == InitIdle /\ [][NextPool]_vars

\* C10: a frame is in the replacer exactly when it is mapped to a page in the
\* page table and that page's pin count is 0.
C10_ReplacerConsistency ==
  \A f \in Frames :
    f \in Range(lruList) <=>
      (\E p \in DOMAIN page_table_ : page_table_[p] = f /\ pages_[f].pin_count_ = 0)

\* ---- what the claims on the pool speak of ----
RECURSIVE SumPinsUpTo(_)
SumPinsUpTo(n) == IF n = 0 THEN 0 ELSE pages_[n - 1].pin_count_ + SumPinsUpTo(n - 1)

\* The sum of pin_count_ over the frames.
SumPins == SumPinsUpTo(PoolSize)

\* The frame holds a page of the page table that is pinned.
HoldsPinned(f) ==
  \E p \in DOMAIN page_table_ : page_table_[p] = f /\ pages_[f].pin_count_ > 0

PinCounts == [f \in Frames |-> pages_[f].pin_count_]

\* C11: the pin counts add up to the successful FetchPage and NewPage calls
\* minus the UnpinPage calls that returned true, no pin count is negative,
\* and a call that fails changes no pin count.
C11_PinAccounting ==
  /\ [](SumPins = handles /\ \A f \in Frames : pages_[f].pin_count_ >= 0)
  /\ [][(pool_ret'.op \in {"FetchPage", "NewPage", "UnpinPage"} /\ ~pool_ret'.ok)
          => PinCounts' = PinCounts]_vars

C11_Witness ==
  /\ pool_ret.op = "UnpinPage"
  /\ ~pool_ret.ok
  /\ handles >= 3
  /\ \E f \in Frames : pages_[f].pin_count_ = 2

\* C12: a page of the page table whose pin count is positive is mapped to
\* the same frame after every step; so a frame is taken for another page only
\* when the page it held had pin count 0.
C12_PinnedNeverEvicted ==
  [][\A p \in DOMAIN page_table_ :
       pages_[page_table_[p]].pin_count_ > 0 =>
         /\ p \in DOMAIN page_table_'
         /\ page_table_'[p] = page_table_[p]
         /\ pages_'[page_table_[p]].page_id_ = p]_vars

\* A page was evicted (its write-back is the call's disk write) while two
\* other pages were pinned.
C12_Witness ==
  /\ pool_ret.op \in {"FetchPage", "NewPage"}
  /\ pool_ret.ok
  /\ \E i \in DOMAIN pool_ret.io : pool_ret.io[i].op = "write_page"
  /\ Cardinality({f \in Frames : HoldsPinned(f)}) = PoolSize

\* C13: after UnpinPage(p, true) has returned true the dirty bit of p is set.
C13_DirtyTracking ==
  (pool_ret.op = "UnpinPage" /\ pool_ret.ok /\ pool_ret.is_dirty) =>
    pages_[page_table_[pool_ret.page_id]].is_dirty_

\* C14: FetchPage of a page that is not in the page table fails exactly when
\* the free list is empty and every frame holds a pinned page, and a failed
\* FetchPage changes neither the page table, the free list, the replacer nor
\* a page's metadata.
C14_FetchFailsOnlyWhenAllPinned ==
  [][(pool_ret'.op = "FetchPage" /\ pool_ret'.page_id \notin DOMAIN page_table_) =>
       /\ ~pool_ret'.ok <=> (free_list_ = <<>> /\ \A f \in Frames : HoldsPinned(f))
       /\ ~pool_ret'.ok => UNCHANGED <<pages_, page_table_, free_list_, lruList>>]_vars

C14_Witness ==
  /\ pool_ret.op = "FetchPage"
  /\ ~pool_ret.ok
  /\ pool_ret.page_id \notin DOMAIN page_table_

\* C15: UnpinPage of a page of the page table whose pin count is 0 returns
\* false and changes nothing; DeletePage of a page that is not in the page
\* table returns true and changes neither the page table, the free list nor
\* the replacer.
C15_Idempotence ==
  [][/\ (/\ pool_ret'.op = "UnpinPage"
         /\ pool_ret'.page_id \in DOMAIN page_table_
         /\ pages_[page_table_[pool_ret'.page_id]].pin_count_ = 0)
        => (~pool_ret'.ok /\ UNCHANGED <<pages_, page_table_, free_list_, lruList>>)
     /\ (pool_ret'.op = "DeletePage" /\ pool_ret'.page_id \notin DOMAIN page_table_)
        => (pool_ret'.ok /\ UNCHANGED <<page_table_, free_list_, lruList>>)]_vars

C15_Witness ==
  /\ pool_ret = [op |-> "UnpinPage", ok |-> FALSE, page_id |-> pool_ret.page_id,
                 is_dirty |-> TRUE, io |-> <<>>]
  /\ pool_ret.page_id \in DOMAIN page_table_
  /\ page_table_[pool_ret.page_id] \in Range(lruList)
  /\ Len(lruList) >= 2

\* C16 as stated: with three frames, after the fourth NewPage page 3 is in
\* the frame that held page 0, and the FetchPage of page 1 that follows
\* writes page 1 to disk and then reads it.
C16_AsStated ==
  /\ (PoolSize = 3 /\ scenario = 6) =>
       (0 \notin DOMAIN page_table_ /\ page_table_[3] = 0)
  /\ (PoolSize = 3 /\ scenario = 7) =>
       pool_ret.io = <<WritePage(1), ReadPage(1)>>

\* C16: with three frames, after the fourth NewPage page 3 is in the frame
\* that held page 0, which was written to disk; the FetchPage of page 1 that
\* follows finds page 1 in the frame it has had since it was made, pins it
\* and makes no disk call.
C16_EvictionScenario ==
  /\ (PoolSize = 3 /\ scenario = 6) =>
       /\ 0 \notin DOMAIN page_table_
       /\ page_table_[3] = 0
       /\ pool_ret.io = <<WritePage(0)>>
  /\ (PoolSize = 3 /\ scenario = 7) =>
       /\ pool_ret.ok
       /\ pool_ret.io = <<>>
       /\ page_table_ = (1 :> 1) @@ (2 :> 2) @@ (3 :> 0)
       /\ pages_[1].pin_count_ = 1
       /\ lruList = <<>>

C16_Witness == scenario = 7

(***************************************************************************)
(* Specification of the replacer and what is claimed of it.                *)
(***************************************************************************)
NextReplacer ==
  \/ ReplacerVictim
  \/ \E f \in ReplacerFrames : ReplacerPin(f)
  \/ \E f \in ReplacerFrames : ReplacerUnpin(f)

SpecReplacer == InitIdle /\ [][NextReplacer]_vars

\* The frame of the replacer whose last Unpin that entered it is the oldest.
OldestUnpinned(lru) ==
  LET present == SelectSeq(unpin_order, LAMBDA f : f \in Range(lru))
  IN present[1]

NoDuplicates(q) == \A i, j \in DOMAIN q : i # j => q[i] # q[j]

\* Victim returns and removes the frame whose last effective Unpin is the
\* oldest among the frames of the replacer, and fails, changing nothing, on
\* an empty replacer; no frame is in the replacer twice.
VictimOrder ==
  /\ [](NoDuplicates(lruList))
  /\ [][replacer_ret'.op = "Victim" =>
          IF lruList = <<>> THEN ~replacer_ret'.ok /\ lruList' = lruList
          ELSE /\ replacer_ret'.ok
               /\ replacer_ret'.frame_id = OldestUnpinned(lruList)
               /\ lruList' = RefPin(lruList, replacer_ret'.frame_id)]_vars

\* C17: Victim returns the frame unpinned longest ago and the replacer
\* behaves as the reference LRU queue: after every sequence of calls it holds
\* the frames the reference holds, in the same order, so every Victim returns
\* what the reference returns.
C17_LruOrder ==
  /\ lruList = lru_ref
  /\ NoDuplicates(lruList)
  /\ (replacer_ret.op = "Victim" /\ replacer_ret.ok) =>
       replacer_ret.frame_id \notin Range(lruList)

\* C18: Unpin of a frame of the replacer changes nothing; Unpin of an absent
\* frame puts it at the front, and on a full replacer the entry dropped is the
\* oldest, the one Victim would have returned; the size never exceeds the
\* capacity.
C18_ReplacerUnpin ==
  /\ [](Len(lruList) <= PoolSize)
  /\ [][replacer_ret'.op = "Unpin" =>
          LET f == replacer_ret'.frame_id
          IN IF f \in Range(lruList) THEN lruList' = lruList
             ELSE IF Len(lruList) >= PoolSize
             THEN lruList' = <<f>> \o AfterVictim(lruList)
             ELSE lruList' = <<f>> \o lruList]_vars

(***************************************************************************)
(* Further claims on the lock manager, under SpecLock.                     *)
(***************************************************************************)
\* C19: a LockShared, LockExclusive or LockUpgrade call of a transaction in
\* the shrinking phase, whatever its isolation level, aborts the transaction
\* and raises LOCK_ON_SHRINKING; no request is appended and no lock granted.
C19_LockOnShrinking ==
  [][\A t \in Txns, r \in RIDs :
       (/\ txn_state[t] = "SHRINKING"
        /\ LockShared(t, r) \/ LockExclusive(t, r) \/ LockUpgrade(t, r))
       => /\ txn_state'[t] = "ABORTED"
          /\ thrown'[t] = "LOCK_ON_SHRINKING"
          /\ lock_table' = lock_table
          /\ shared_lock_set' = shared_lock_set
          /\ exclusive_lock_set' = exclusive_lock_set]_vars

\* Transactions t and u hold the shared lock on rid r, nobody else has asked
\* for r, and u has called LockUpgrade and waits for t's shared lock to go.
UpgradePending(u, t, r) ==
  /\ t # u
  /\ txn_state[t] = "GROWING" /\ txn_state[u] = "GROWING"
  /\ r \in shared_lock_set[t]
  /\ txn_wait[u] = [op |-> "U", rid |-> r]
  /\ ~lock_table[r].is_writting
  /\ lock_table[r].reading_count = 1
  /\ Len(lock_table[r].request_queue) = 3
  /\ \E i, j \in 1..2 :
       /\ i # j
       /\ lock_table[r].request_queue[i] =
            [txn_id |-> t, lock_mode |-> "S", granted |-> TRUE]
       /\ lock_table[r].request_queue[j] =
            [txn_id |-> u, lock_mode |-> "S", granted |-> TRUE]
  /\ lock_table[r].request_queue[3] =
       [txn_id |-> u, lock_mode |-> "X", granted |-> FALSE]

\* C20: when two transactions hold the shared lock on a rid and both call
\* LockUpgrade, the second call raises UPGRADE_CONFLICT and aborts its
\* transaction, which gets no exclusive lock; the first caller is not
\* granted the exclusive lock while the second still holds its shared lock.
C20_UpgradeConflict ==
  [][\A t, u \in Txns, r \in RIDs :
       /\ (UpgradePending(u, t, r) /\ LockUpgrade(t, r))
            => /\ thrown'[t] = "UPGRADE_CONFLICT"
               /\ txn_state'[t] = "ABORTED"
               /\ r \notin exclusive_lock_set'[t]
       /\ (UpgradePending(u, t, r) /\ r \in shared_lock_set'[t])
            => r \notin exclusive_lock_set'[u]]_vars

\* C21: the Unlock of a growing transaction leaves it shrinking, and from
\* then on no lock call of the transaction is granted: while a transaction
\* is shrinking (a state only Unlock sets) no step adds a rid to its shared
\* or to its exclusive lock set.
C21_TwoPhaseRule ==
  [][\A t \in Txns :
       /\ \A r \in RIDs :
            (txn_state[t] = "GROWING" /\ Unlock(t, r)) => txn_state'[t] = "SHRINKING"
       /\ txn_state[t] = "SHRINKING"
            => /\ shared_lock_set'[t] \subseteq shared_lock_set[t]
               /\ exclusive_lock_set'[t] \subseteq exclusive_lock_set[t]]_vars

\* A step of the detection thread that aborts transaction t.
DetectorAborts(t) ==
  /\ detect_round' # detect_round
  /\ txn_state[t] # "ABORTED"
  /\ txn_state'[t] = "ABORTED"

\* C28: when the detector aborts a transaction that is blocked in a lock
\* call, the same round notifies the condition variable the transaction
\* waits on, and the blocked call eventually returns raising DEADLOCK.
C28_VictimWakeUp ==
  /\ [][\A t \in Txns :
          (DetectorAborts(t) /\ txn_wait[t].op # "none") => notified'[t]]_vars
  /\ \A t \in Txns :
       (txn_wait[t].op # "none" /\ txn_state[t] = "ABORTED")
         ~> (txn_wait[t].op = "none" /\ thrown[t] = "DEADLOCK")

\* Transaction t is blocked on a rid that transaction u holds in a mode
\* that keeps t's wait predicate false.
RealWaits(t, u) ==
  /\ txn_wait[t].op # "none"
  /\ LET r == txn_wait[t].rid
     IN IF txn_wait[t].op = "S" THEN r \in exclusive_lock_set[u]
        ELSE r \in shared_lock_set[u] \cup exclusive_lock_set[u]

RECURSIVE RealReach(_)
RealReach(S) ==
  LET n == S \cup {u \in Txns : \E s \in S : RealWaits(s, u)}
  IN IF n = S THEN S ELSE RealReach(n)

OnRealCycle(t) == \E u \in Txns : RealWaits(t, u) /\ t \in RealReach({u})

\* C29: the detector aborts only a transaction that lies on a cycle of real
\* waits: a transaction that waits in LockUpgrade for the other readers to
\* leave, with no deadlock, is not aborted, and neither is one that holds
\* no lock any more.
C29_NoSpuriousAbort ==
  [][\A t \in Txns : DetectorAborts(t) => OnRealCycle(t)]_vars

\* The requests of transaction t in queue q that satisfy granted = g and
\* lock_mode = m.
Has(q, t, m, g) ==
  \E i \in 1..Len(q) : q[i].txn_id = t /\ q[i].lock_mode = m /\ q[i].granted = g

\* C30: after Unlock(t, r) the queue of r holds no request of t; once
\* LockUpgrade(t, r) got past its checks the queue of r holds no granted S
\* request of t; and the granted requests of a queue are exactly the locks
\* held: t has a granted S (X) request on r iff r is in its shared
\* (exclusive) lock set.
C30_QueueCleanup ==
  /\ [][\A t \in Txns, r \in RIDs :
          /\ Unlock(t, r)
               => \A i \in 1..Len(lock_table'[r].request_queue) :
                     lock_table'[r].request_queue[i].txn_id # t
          /\ (LockUpgrade(t, r) /\ r \notin shared_lock_set'[t])
               => ~Has(lock_table'[r].request_queue, t, "S", TRUE)]_vars
  /\ [](\A t \in Txns, r \in RIDs :
          /\ Has(lock_table[r].request_queue, t, "S", TRUE) <=> r \in shared_lock_set[t]
          /\ Has(lock_table[r].request_queue, t, "X", TRUE) <=> r \in exclusive_lock_set[t])

(***************************************************************************)
(* Further claims on the B+tree.                                           *)
(***************************************************************************)
\* The tree of the split cascade scenario: leaf_max_size 3, internal_max_size
\* 3, keys 1..10 inserted in ascending order.
CascadeLoaded ==
  /\ leaf_max_size_ = 3 /\ internal_max_size_ = 3
  /\ DOMAIN live = 1..10

\* C22: in the split cascade scenario the tree has depth 3, its root has
\* exactly two children, and an iteration from begin() to end() yields the
\* keys 1..10 in order.
C22_SplitCascade ==
  CascadeLoaded =>
    /\ Depth(root_page_id_) = 3
    /\ Size(pages[root_page_id_]) = 2
    /\ result.op = "Iterate" =>
         (result.reached /\ result.pairs = [i \in 1..10 |-> <<i, i>>])

\* The shape part of C22 alone.
C22_Shape ==
  CascadeLoaded => (Depth(root_page_id_) = 3 /\ Size(pages[root_page_id_]) = 2)

\* C25: between tree operations the root id the header page records for the
\* index equals root_page_id_, from the first insert on: after the first
\* insert, after every root split, after every collapse or emptying of the
\* root, and after a tree is started again once emptied.
C25_RootPersistence ==
  (root_page_id_ # INVALID_PAGE_ID \/ header_record # NoRecord)
    => header_record = root_page_id_

\* C26: between operations the root of a non-empty tree is a leaf or an
\* internal page with at least two children, and its parent_page_id is
\* INVALID_PAGE_ID; a Remove that leaves an internal root with one child
\* makes that child the root.
C26_RootShape ==
  root_page_id_ # INVALID_PAGE_ID =>
    /\ root_page_id_ \in DOMAIN pages
    /\ pages[root_page_id_].parent = INVALID_PAGE_ID
    /\ IsLeafPage(pages[root_page_id_]) \/ Size(pages[root_page_id_]) >= 2

\* A Remove has run and the root is a leaf that was once the child of an
\* internal root.
C26_Witness ==
  /\ result.op = "Remove"
  /\ root_page_id_ # INVALID_PAGE_ID
  /\ IsLeafPage(pages[root_page_id_])
  /\ pages[root_page_id_].parent = INVALID_PAGE_ID
  /\ next_page_id >= 4
  /\ DOMAIN live # {}

\* The pages reached from page pid by child pointers, pid included.
RECURSIVE Below(_)
Below(pid) ==
  IF pid \notin DOMAIN pages THEN {}
  ELSE IF IsLeafPage(pages[pid]) THEN {pid}
  ELSE {pid} \cup UNION {Below(c) : c \in Range(pages[pid].vals)}

\* The nodes of the tree.
TreeNodes == IF root_page_id_ = INVALID_PAGE_ID THEN {} ELSE Below(root_page_id_)

\* C27: the parent_page_id of every page but the root names an internal page
\* of the tree that holds a child pointer to the page.
C27_ParentPointer ==
  \A p \in TreeNodes :
    p # root_page_id_ =>
      /\ pages[p].parent \in InternalIds \cap TreeNodes
      /\ ValueIndex(pages[pages[p].parent], p) >= 0

\* A tree of depth 3, whose internal pages below the root got their children
\* from a split, after a Remove.
C27_Witness ==
  /\ result.op = "Remove"
  /\ root_page_id_ # INVALID_PAGE_ID
  /\ Depth(root_page_id_) >= 3

(***************************************************************************)
(* Claims on the threads that latch pages.                                 *)
(***************************************************************************)
AllIdle == \A t \in Threads : threads[t].pc = "idle"

\* The pages thread t needs to latch to take its next step, and cannot.
WaitsForLatch(t) ==
  LET th == threads[t]
  IN IF th.pc = "descend"
     THEN IF CanLatch(latches[th.page], th.op) THEN {} ELSE {th.page}
     ELSE IF th.pc = "latched"
     THEN {q \in Siblings(t) : ~CanWLatch(latches[q])}
     ELSE {}

\* C23: threads that only call GetValue on a prepopulated tree: a finished
\* lookup of a key the tree holds has returned true and the stored value, no
\* thread waits for a latch, no thread has released a latch it did not hold,
\* and once the lookups are over no page is left pinned or latched.
C23_ConcurrentReaders ==
  /\ \A t \in Threads :
       (threads[t].ret.done /\ threads[t].key \in DOMAIN live)
         => (threads[t].ret.found /\ threads[t].ret.value = live[threads[t].key])
  /\ \A t \in Threads : WaitsForLatch(t) = {}
  /\ ~crab.misuse
  /\ AllIdle => \A p \in CrabPages : pins[p] = 0 /\ latches[p] = NoLatch

\* Thread t waits for a latch that thread u holds.
WaitsOn(t, u) == t # u /\ \E q \in WaitsForLatch(t) : HeldBy(latches[q], u)

RECURSIVE WaitReach(_)
WaitReach(S) ==
  LET n == S \cup {u \in Threads : \E s \in S : WaitsOn(s, u)}
  IN IF n = S THEN S ELSE WaitReach(n)

\* Thread t is in a call and holds the latch of no page.
Unlatched(t) ==
  /\ threads[t].pc # "idle"
  /\ threads[t].page_set # <<>> \/ threads[t].pc = "latched"
  /\ \A p \in CrabPages : ~HeldBy(latches[p], t)

\* No threads wait for each other's page latches in a cycle.
NoWaitCycle ==
  \A t \in Threads : \A u \in Threads : WaitsOn(t, u) => t \notin WaitReach({u})

\* C24: under every interleaving of GetValue, Insert and Remove calls no
\* threads wait for each other's page latches in a cycle; a thread latches
\* only the pages of its path from the root, parent before child, and gives
\* an ancestor's latch up only once it holds the child's, so that from its
\* first latch to the end of its call it always holds one.
C24_LatchOrder ==
  /\ NoWaitCycle
  /\ ~crab.sideways
  /\ \A t \in Threads : ~Unlatched(t)

(***************************************************************************)
(* Further claims on the lock manager.                                     *)
(***************************************************************************)
\* The graph a round has built when HasCycle reports its first cycle, before
\* the victim is purged; the graph at the end of the round when no cycle is
\* reported.
RECURSIVE BuiltGraph(_, _, _, _, _)
BuiltGraph(ridOrder, i, wf, order, re) ==
  IF i > Len(ridOrder) THEN wf
  ELSE LET q == lock_table[ridOrder[i]]
       IN IF ~q.is_writting /\ q.reading_count = 0
          THEN BuiltGraph(ridOrder, i + 1, wf, order, re)
          ELSE LET g == AddEdges(wf, QueueEdges(q.request_queue), 1)
                   h == HasCycle(g, order, re)
               IN IF h.found THEN g
                  ELSE BuiltGraph(ridOrder, i + 1, h.wf, order, h.re)

Conflicts(m, n) == m = "X" \/ n = "X"

\* The pairs (a, b) of the rebuilt graph as the statement gives them: on a
\* RID that has a holder (a writer, or readers counted), a has an ungranted
\* request, b a granted one, and the modes conflict.
ConflictEdges ==
  {e \in Txns \X Txns :
     \E r \in RIDs :
       LET q == lock_table[r].request_queue
       IN \E i, j \in 1..Len(q) :
            /\ lock_table[r].is_writting \/ lock_table[r].reading_count # 0
            /\ q[i].txn_id = e[1] /\ ~q[i].granted
            /\ q[j].txn_id = e[2] /\ q[j].granted
            /\ Conflicts(q[i].lock_mode, q[j].lock_mode)}

NoDuplicateEdge(wf) ==
  \A a \in AllTxns : \A i, j \in 1..Len(wf.adj[a]) :
     wf.adj[a][i] = wf.adj[a][j] => i = j

\* C31: whatever the orders in which a detection round walks the lock table
\* and the graph, the graph the round has built before it purges a victim
\* holds exactly the pairs (a, b) such that on some RID with a holder a has
\* an ungranted request and b a granted one with a conflicting mode, each
\* pair once, and nothing else.
C31_WaitsForRebuild ==
  \A ridOrder \in Perms(RIDs), order \in Perms(Txns), re \in Rehashes(Txns) :
     LET g == BuiltGraph(ridOrder, 1, EmptyGraph, order, re)
     IN GetEdgeList(g) = ConflictEdges /\ NoDuplicateEdge(g)

SharedHolders(r) == {t \in Txns : r \in shared_lock_set[t]}

ExclusiveHolders(r) == {t \in Txns : r \in exclusive_lock_set[t]}

\* C32: on every RID, reading_count is the number of transactions whose
\* shared_lock_set holds the RID, never negative, and is_writting is true
\* exactly when one transaction's exclusive_lock_set holds the RID.
C32_CounterConsistency ==
  \A r \in RIDs :
    /\ lock_table[r].reading_count >= 0
    /\ lock_table[r].reading_count = Cardinality(SharedHolders(r))
    /\ lock_table[r].is_writting <=> Cardinality(ExclusiveHolders(r)) = 1

(***************************************************************************)
(* Further claims on the threads that latch pages.                         *)
(***************************************************************************)
\* The step is the rest of thread t's call, made once the leaf is latched.
Finishes(t) == threads[t].pc = "latched" /\ threads'[t].pc = "idle"

\* The pages thread t holds the write latch of during that step: those it
\* kept from its descent and the siblings CoalesceOrRedistribute latches.
WriteHeld(t) == {p \in CrabPages : latches[p].writer = t} \cup Siblings(t)

\* The pages other than the leaf that the step writes or gives up: pages of
\* the tree before the step whose entries or next_page_id differ after it.
\* A page whose parent_page_id alone is set anew (a child that moved with
\* its entry) is not counted.
Rewritten(t) ==
  {p \in DOMAIN pages :
     /\ p # threads[t].page
     /\ \/ p \notin DOMAIN pages'
        \/ [pages'[p] EXCEPT !.parent = pages[p].parent] # pages[p]}

\* C33: when the rest of an Insert or Remove writes a page other than its
\* leaf (the parent, a sibling, the root), the thread holds that page's
\* write latch: an ancestor was released early only if the call does not
\* come to write it.
C33_WriteCrabbing ==
  [][\A t \in Threads : Finishes(t) => Rewritten(t) \subseteq WriteHeld(t)]_vars

\* C34: UnLatchAndUnpin leaves the page set empty, so the pages of a
\* thread's page set are pages whose latch the thread holds, each is
\* released once, and no thread releases a latch it does not hold.
C34_PageSetDiscipline ==
  /\ \A t \in Threads : \A i \in 1..Len(threads[t].page_set) :
        HeldBy(latches[threads[t].page_set[i]], t)
  /\ ~crab.misuse


\* The thread whose step writes root_page_id_: the one that leaves
\* StartNewTree, or the one whose Insert or Remove ends.
RootWriter(t) ==
  /\ root_page_id_' # root_page_id_
  /\ threads[t].pc \in {"locked", "latched"}
  /\ threads'[t].pc = "idle"

\* C35: every write of root_page_id_, in StartNewTree, InsertIntoParent and
\* AdjustRoot, is made by a thread that holds the tree's mutex latch_.
C35_RootIdGuarded ==
  [][\A t \in Threads : RootWriter(t) => crab.latch_ = t]_vars


\* Thread t has returned from an Insert that went through StartNewTree.
FirstInsertDone(t) ==
  /\ t \in crab.first
  /\ threads[t].pc = "idle"
  /\ threads[t].ret.done

\* C36: two threads that insert distinct keys into an empty tree at the same
\* time: both calls return true, and once both have returned GetValue finds
\* both keys.
C36_ConcurrentFirstInserts ==
  \A t, u \in Threads :
     /\ t # u
     /\ FirstInsertDone(t) /\ FirstInsertDone(u)
     /\ threads[t].key # threads[u].key
     => /\ threads[t].ret.found /\ threads[u].ret.found
        /\ ~IsEmpty(Tree)
        /\ GetValue(Tree, threads[t].key).ret
        /\ GetValue(Tree, threads[u].key).ret


(* Further claims on the pins of the tree's pages. *)
\* The internal pages FindLeafPageRW fetches on its way to the leaf of key.
RECURSIVE InternalPath(_, _, _)
InternalPath(pgs, p, key) ==
  IF IsLeafPage(pgs[p]) THEN {}
  ELSE {p} \cup InternalPath(pgs, InternalLookup(pgs[p], key), key)

\* GetValue(key, result, nullptr): FindLeafPageRW fetches the root and each
\* page below it, latches nothing and unpins nothing; GetValue unpins the
\* leaf.  The call reads only, and is taken in one step.
GetValueNoTransaction(key) ==
  LET path == InternalPath(pages, root_page_id_, key)
  IN /\ ~Cut
     /\ ~IsEmpty(Tree)
     /\ \A p \in path : pins[p] < MaxPin
     /\ pins' = [p \in CrabPages |-> IF p \in path THEN pins[p] + 1 ELSE pins[p]]
     /\ result' = [op |-> "GetValue", key |-> key, ret |-> GetValue(Tree, key).ret]
     /\ UNCHANGED <<threads, latches, crab>>
     /\ UNCHANGED <<pages, root_page_id_, next_page_id, header_record, live,
                    leaf_max_size_, internal_max_size_>>
     /\ UNCHANGED <<lockVars, graphVars, detect_round, poolVars>>

\* Lookups with a transaction record, by the threads, and without.
NextLookup ==
  \/ NextReaders
  \/ \E k \in 1..MaxCrabKey : GetValueNoTransaction(k)

SpecLookup == InitLoaded /\ [][NextLookup]_vars

\* C37: once GetValue, Insert or Remove has returned and no call is in
\* progress, no page of the tree is pinned, with and without a transaction
\* record.
C37_NoPinLeak == AllIdle => \A p \in CrabPages : pins[p] = 0


\* The pages thread t's Remove hands to DeletePage in its last step: the
\* pages Coalesce and AdjustRoot give up.
GivenUp(t) ==
  IF Finishes(t) /\ threads[t].op = "DELETE" THEN DOMAIN pages \ DOMAIN pages' ELSE {}

\* A lower bound of the pin count DeletePageImpl finds on page q: the pins
\* of the descents, and one more for a page other than the leaf, which
\* CoalesceOrRedistribute or Coalesce has fetched and not yet unpinned.
PinsAtDelete(t, q) == pins[q] + (IF q # threads[t].page THEN 1 ELSE 0)

\* DeletePageImpl returns false, and frees nothing, for a pinned page.
DeletePageRefused(t, q) == PinsAtDelete(t, q) > 0

\* C38: a page that a Remove has merged into its sibling, or the old root
\* AdjustRoot removes, is freed: the DeletePage call on it succeeds.
C38_MergedPagesFreed ==
  [][\A t \in Threads : \A q \in GivenUp(t) : ~DeletePageRefused(t, q)]_vars


\* No leaf page holds key.
Absent(key) == \A p \in DOMAIN pages : IsLeafPage(pages[p]) => ~LeafHas(pages[p], key)

\* Thread t takes a step of a Remove call.
RemoveStep(t) == threads'[t] # threads[t] /\ threads'[t].op = "DELETE"

\* C39: Remove(k) on a tree that does not hold k, the empty tree included,
\* leaves the pages, root_page_id_ and the header record as they are and
\* fetches no page with an invalid id.
C39_RemoveAbsent ==
  [][\A t \in Threads :
       RemoveStep(t) /\ Absent(threads'[t].key)
       => /\ pages' = pages
          /\ root_page_id_' = root_page_id_
          /\ header_record' = header_record
          /\ ~crab'.wild]_vars


(* Further claims on the buffer pool. *)
\* The bytes of frame f when NewPageImpl returns it: NewPageImpl writes
\* page_id_, pin_count_ and is_dirty_ and nothing to data_, so that the bytes
\* are those of the page the frame held before the call; INVALID_PAGE_ID
\* stands for the zeroed memory of a frame that has held no page.
DataAfterNewPage(f) == pages_[f].page_id_

\* C40: a NewPage that succeeds returns the id just allocated in a frame with
\* pin count 1, the dirty bit set and all-zero contents, and the page table
\* maps the new id to that frame and no other id to it; a NewPage that fails
\* leaves the page table, the free list and the replacer as they were.
C40_NewPageResult ==
  [][pool_ret'.op = "NewPage" =>
       IF pool_ret'.ok
       THEN LET id == pool_ret'.page_id
                f == page_table_'[id]
            IN /\ id = disk_next_page_id
               /\ id \notin AllocatedPages
               /\ id \in DOMAIN page_table_'
               /\ pages_'[f].page_id_ = id
               /\ pages_'[f].pin_count_ = 1
               /\ pages_'[f].is_dirty_
               /\ DataAfterNewPage(f) = INVALID_PAGE_ID
               /\ \A p \in DOMAIN page_table_' : page_table_'[p] = f => p = id
       ELSE UNCHANGED <<page_table_, free_list_, lruList>>]_vars
====
